---- MODULE Spec2Model ----
(***************************************************************************)
(* Model of the per-key backup/compress workflow of impress-outfit-logs:   *)
(* backupImage and its two stages, saveBackupIfNotAlreadyDone and          *)
(* replaceOriginalIfNotAlreadyDone, run against an S3-like store that      *)
(* holds the original key K and its snapshot key K.bkup.                   *)
(***************************************************************************)
EXTENDS Integers, Sequences, FiniteSets, TLC

(* ------------------------------ bounds -------------------------------- *)

\* Largest image length (in abstract size units) the store and the
\* render/compress capabilities produce.
MaxLen == 2

\* Number of backupImage invocations made on the key, one after the other.
MaxRuns == 2

\* NUM_WORKERS of the batch script, scaled down from the script's 20: the
\* pool's concurrency and half the capacity of the outfit data cache.
NUM_WORKERS == 2

\* Calls of loadOutfitData beyond the cache's capacity.
ExtraFetches == 2

\* Image keys on the page the pool works through.
MaxImageKeys == 4

\* Failed attempts of a key whose workflow does not always fail.
MaxTransient == 1

\* Outfits whose keys the bucket can hold: for each an image key, its
\* backup key and one key of another kind.
MaxOutfits == 2

\* MaxKeys of the listing request, scaled down from the script's 1000.
MaxKeysPerPage == 2

\* Times the entry of a key's outfit id is pushed out of the cache while the
\* key is being retried.
MaxEvictions == 1

(* ------------------------------ values -------------------------------- *)

\* The original key and its snapshot key (key + ".bkup").
key == "K"
backupKey == "K.bkup"
Keys == {key, backupKey}

\* What tagging["DTI-Outfit-Image-Kind"] can evaluate to for an object that
\* exists: undefined (no such tag), the empty string (S3 allows empty tag
\* values), the three values the workflow writes, or some other string.
Kinds == {"undefined", "", "backup", "compressed", "compression-failed", "other"}

\* Lengths of object bodies; a body is <<where the bytes came from, length>>.
Lens == 1..MaxLen

NoObject == [exists |-> FALSE, body |-> <<"none", 0>>, kind |-> "undefined"]

Object(b, k) == [exists |-> TRUE, body |-> b, kind |-> k]

\* Store states the workflow can be started on: any tag state of K and of
\* K.bkup, either of them possibly absent.
InitialObjects(src, lens) ==
    {NoObject} \cup {Object(<<src, n>>, k) : n \in lens, k \in Kinds}

\* The ways the preloaded chain rejects: the GraphQL query returned errors or
\* no outfit, the render did not report success, or pngquant failed.
RejectedStatuses == {"upstream-error", "partial-failure", "compress-error"}

\* The result of the preloaded buildOutfitImage/compressImage chain.
PendingImages == [status |-> "pending", originalSize |-> 0, compressedSize |-> 0]

SettledImages ==
    {[status |-> s, originalSize |-> 0, compressedSize |-> 0] :
        s \in RejectedStatuses}
    \cup {[status |-> "success", originalSize |-> o, compressedSize |-> c] :
        o \in Lens, c \in Lens}

VARIABLES
    obj,                \* the store: Keys -> object
    force,              \* the --force flag of the process making the run
    pc,                 \* position of the running backupImage, "idle" if none
    tagging,            \* loadImageTagging(s3, key): "null" or the tag value
    backupTagging,      \* loadImageTagging(s3, backupKey)
    newImages,          \* the preloaded originalImage/compressedImage promises
    didSaveBackup,      \* result of saveBackupIfNotAlreadyDone
    didReplaceOriginal, \* result of replaceOriginalIfNotAlreadyDone
    snapshotDecision,   \* branch taken by saveBackupIfNotAlreadyDone
    replaceDecision,    \* branch taken by replaceOriginalIfNotAlreadyDone
    pending,            \* store mutations issued and not yet settled
    issued,             \* store mutations issued by the current run, in order
    failed,             \* store mutations of the current run the store rejected
    result,             \* how the latest run ended
    obj0,               \* the store as it was when the current run began
    prev,               \* force flag and result of the run before this one
    kWritten,           \* a replace-stage write to K has completed
    runs,               \* number of runs begun
    attempt,            \* promiseRetry's attempt number for the key, 0 before
    settled,            \* the promise the producer returned has settled
    numImageKeyNoOps,   \* main's counter of keys that needed no change
    backupFailures,     \* main's list of keys given up on
    cache,              \* OUTFIT_DATA_PROMISES_CACHE, least recently used first
    fetches,            \* the promises loadOutfitData has returned, in order
    lastCall,           \* the latest call of loadOutfitDataWithCaching
    imageKeys,          \* number of image keys on the page
    alwaysFailing,      \* indices of the keys whose workflow always fails
    imageKeyIndex,      \* the producer's index: number of keys claimed
    claimed,            \* the indices the producer has handed out, in order
    item,               \* per image key: status and attempt number
    poolSize,           \* the pool's count of promises in flight
    poolDone,           \* the producer has returned null
    poolState,          \* "idle", "running" or "settled"
    failureErrors,      \* per failure entry: the attempt whose error it holds
    unhandled,          \* a promise was rejected with no handler attached
    bucket,             \* the keys the bucket holds under the prefix
    lastKey,            \* main's cursor, 0 for null
    mainPc,             \* main: "idle", "list", "pool", "done", "failed", "crashed"
    listAttempt,        \* attempt under way at listing a page, 0 when none
    keys,               \* the page getImageKeys returned
    pageImageKeys,      \* imageKeys: the page's keys that end in .png
    numKeys,            \* main's count of keys listed
    numImageKeys,       \* main's count of image keys
    numImageBackupKeys, \* main's count of backup keys
    exitCode,           \* the code passed to process.exit, NotExited before
    pages,              \* the listings answered: cursor sent, keys returned
    delAttempts,        \* deleteImageTags: per attempt, request and verdict
    delOutcome,         \* deleteImageTags: how its promise settled
    deleteFailures,     \* the tag deletion script's list of failed keys
    tagsDeleted,        \* the store has carried out a deleteObjectTagging
    outfitId,           \* the outfit id the workflow script was started with
    siblingKeys,        \* per filename: the key main has built, "" before
    keyOutfitId         \* per filename: the id read back from the key, "" before

workflowVars ==
    <<obj, force, pc, tagging, backupTagging, newImages, didSaveBackup,
      didReplaceOriginal, snapshotDecision, replaceDecision, pending,
      issued, failed, result, obj0, prev, kWritten, runs>>

\* State of the batch script around one key's workflow.
retryVars == <<attempt, settled, numImageKeyNoOps, backupFailures, failureErrors>>

\* State of the outfit data cache.
cacheVars == <<cache, fetches, lastCall>>

\* State of one page's pass through the promise pool.
poolVars == <<imageKeys, alwaysFailing, imageKeyIndex, claimed, item, poolSize,
              poolDone, poolState>>

\* What the runtime records about the process.
processVars == <<unhandled>>

\* State of main's loop over the pages of the listing.
batchVars == <<bucket, lastKey, mainPc, listAttempt, keys, pageImageKeys,
               numKeys, numImageKeys, numImageBackupKeys, exitCode, pages>>

\* State of the tag deletion script's deleteImageTags for one key.
timeoutVars == <<delAttempts, delOutcome, deleteFailures, tagsDeleted>>

\* The keys of one outfit's images and the ids read back from them.
keyVars == <<outfitId, siblingKeys, keyOutfitId>>

\* Everything the specifications of the cache, the pool and the per-key
\* retries leave alone.
laterVars == <<processVars, batchVars, timeoutVars, keyVars>>

\* Everything backupImage itself never touches.
nonWorkflowVars == <<retryVars, cacheVars, poolVars, laterVars>>

vars == <<workflowVars, nonWorkflowVars>>

runLocals == <<tagging, backupTagging, didSaveBackup, didReplaceOriginal,
               snapshotDecision, replaceDecision>>

(* --------------------------- pure functions --------------------------- *)

\* JavaScript truthiness of the values the workflow tests.
Truthy(v) == v \notin {"undefined", "null", "", "false"}

\* a || b
JsOr(a, b) == IF Truthy(a) THEN a ELSE b

\* loadImageTagging: null on NoSuchKey, otherwise the tag set, of which only
\* the DTI-Outfit-Image-Kind entry is ever read.
loadImageTagging(store, k) ==
    IF store[k].exists THEN store[k].kind ELSE "null"

\* saveBackupIfNotAlreadyDone without its `if (backupTagging)` test: a missing
\* K.bkup is read as an unexpected tag.
SnapshotGateNoNullCheck(f, bt) ==
    IF ~f
    THEN IF bt # "backup" THEN "SkipUnexpectedTag" ELSE "SkipAlreadyDone"
    ELSE "Proceed"

\* saveBackupIfNotAlreadyDone with the force test inverted.
SnapshotGateForceInverted(f, bt) ==
    IF f /\ bt # "null"
    THEN IF bt # "backup" THEN "SkipUnexpectedTag" ELSE "SkipAlreadyDone"
    ELSE "Proceed"

\* saveBackupIfNotAlreadyDone with its two skip branches exchanged.
SnapshotGateSwapped(f, bt) ==
    IF ~f /\ bt # "null"
    THEN IF bt # "backup" THEN "SkipAlreadyDone" ELSE "SkipUnexpectedTag"
    ELSE "Proceed"

\* The branch saveBackupIfNotAlreadyDone takes.  backupTagging is an object
\* (truthy) whenever K.bkup exists, whatever its tag set holds.
SnapshotGate(f, bt) ==
    IF ~f /\ bt # "null"
    THEN IF bt # "backup" THEN "SkipUnexpectedTag" ELSE "SkipAlreadyDone"
    ELSE "Proceed"

\* replaceOriginalIfNotAlreadyDone without its `=== "compressed"` branch.
ReplaceGateNoDoneCheck(f, t) ==
    IF f THEN "Proceed"
    ELSE IF t = "null" THEN "Throw"
    ELSE IF t = "compression-failed" THEN "SkipPriorFailure"
    ELSE IF Truthy(t) /\ t # "compressed" THEN "SkipUnexpectedTag"
    ELSE "Proceed"

\* replaceOriginalIfNotAlreadyDone without its `=== "compression-failed"`
\* branch.
ReplaceGateNoFailedCheck(f, t) ==
    IF f THEN "Proceed"
    ELSE IF t = "null" THEN "Throw"
    ELSE IF t = "compressed" THEN "SkipAlreadyDone"
    ELSE IF Truthy(t) /\ t # "compressed" THEN "SkipUnexpectedTag"
    ELSE "Proceed"

\* The branch replaceOriginalIfNotAlreadyDone takes.
ReplaceGate(f, t) ==
    IF f THEN "Proceed"
    ELSE IF t = "null" THEN "Throw"
    ELSE IF t = "compressed" THEN "SkipAlreadyDone"
    ELSE IF t = "compression-failed" THEN "SkipPriorFailure"
    ELSE IF Truthy(t) /\ t # "compressed" THEN "SkipUnexpectedTag"
    ELSE "Proceed"

\* The replace stage without its size comparison.
ReplaceWriteAlwaysPut(img) == "putObject-compressed"

\* Which write the replace stage issues for the images it was given.
ReplaceWrite(img) ==
    IF img.compressedSize > img.originalSize
    THEN "copyObject-compressionFailed"
    ELSE "putObject-compressed"

\* backupImage calling the replace stage without awaiting the snapshot stage.
ReplaceStageNotAwaited(p) == p \in {"replace", "awaitBackupCopy"}

\* The position at which backupImage calls replaceOriginalIfNotAlreadyDone:
\* after the awaited saveBackupIfNotAlreadyDone has returned.
ReplaceStageMayStart(p) == p = "replace"

ReplaceWrites == {"copyObject-compressionFailed", "putObject-compressed"}

(* ------------------------------ Init ---------------------------------- *)

\* The store before the first run.
StoreInit ==
    \E k \in InitialObjects("original", Lens),
       b \in InitialObjects("earlier", {1}) :
         obj = [x \in Keys |-> IF x = key THEN k ELSE b]

\* No run of backupImage has been made yet.
RunIdle ==
    /\ pc = "idle"
    /\ tagging = "unset"
    /\ backupTagging = "unset"
    /\ newImages = PendingImages
    /\ didSaveBackup = "unset"
    /\ didReplaceOriginal = "unset"
    /\ snapshotDecision = "unset"
    /\ replaceDecision = "unset"
    /\ pending = {}
    /\ issued = <<>>
    /\ failed = {}
    /\ result = "none"
    /\ obj0 = obj
    /\ prev = [force |-> FALSE, result |-> "none"]
    /\ kWritten = FALSE
    /\ runs = 0

WorkflowInit ==
    /\ StoreInit
    /\ force = FALSE
    /\ RunIdle

\* No batch script around the workflow.
\* No workflow is running and none has run: the state of the workflow's
\* variables in the specifications that do not run it.
WorkflowIdle ==
    /\ obj = [x \in Keys |-> NoObject]
    /\ force = FALSE
    /\ RunIdle

RetryIdle ==
    /\ failureErrors = <<>>
    /\ attempt = 0
    /\ settled = FALSE
    /\ numImageKeyNoOps = 0
    /\ backupFailures = <<>>

\* The cache as the module creates it, before any call.
NoCall == [id |-> 0, fetch |-> 0, hit |-> FALSE]

CacheIdle ==
    /\ cache = <<>>
    /\ fetches = <<>>
    /\ lastCall = NoCall

\* No page is being processed.
PoolIdle ==
    /\ imageKeys = 0
    /\ alwaysFailing = {}
    /\ imageKeyIndex = 0
    /\ claimed = <<>>
    /\ item = <<>>
    /\ poolSize = 0
    /\ poolDone = FALSE
    /\ poolState = "idle"

\* The value of exitCode while the process has not exited.
NotExited == -1

\* main has not been called.
MainIdle ==
    /\ bucket = {}
    /\ lastKey = 0
    /\ mainPc = "idle"
    /\ listAttempt = 0
    /\ keys = <<>>
    /\ numKeys = 0
    /\ numImageKeys = 0
    /\ numImageBackupKeys = 0
    /\ exitCode = NotExited
    /\ pages = <<>>

\* deleteImageTags has not been called.
TimeoutIdle ==
    /\ delAttempts = <<>>
    /\ delOutcome = "none"
    /\ deleteFailures = <<>>
    /\ tagsDeleted = FALSE

\* Strings are sequences of character codes.  The three image filenames:
\* "preview.png", "medium_preview.png", "small_preview.png".
PreviewPng == <<112, 114, 101, 118, 105, 101, 119, 46, 112, 110, 103>>

MediumPreviewPng == <<109, 101, 100, 105, 117, 109, 95>> \o PreviewPng

SmallPreviewPng == <<115, 109, 97, 108, 108, 95>> \o PreviewPng

Filenames == {PreviewPng, MediumPreviewPng, SmallPreviewPng}

\* No key has been built or read.
KeyIdle ==
    /\ outfitId = <<>>
    /\ siblingKeys = [f \in Filenames |-> <<>>]
    /\ keyOutfitId = [f \in Filenames |-> <<>>]

\* The state of the variables a specification does not use.
LaterIdle ==
    /\ unhandled = FALSE
    /\ MainIdle
    /\ pageImageKeys = <<>>
    /\ TimeoutIdle
    /\ KeyIdle

Init ==
    /\ WorkflowInit
    /\ RetryIdle
    /\ CacheIdle
    /\ PoolIdle
    /\ LaterIdle

(* ----------------------------- actions -------------------------------- *)

\* Variant in which calling backupImage starts no chain.
PreloadedAtCallNotStarted ==
    [status |-> "not-started", originalSize |-> 0, compressedSize |-> 0]

\* The first statements of backupImage call buildOutfitImage, which calls
\* getOutfitData at once, and chain compressImage to it: the fetch is
\* requested before any tag is read.
PreloadedAtCall == PendingImages

\* Whether a rejection of the preloaded chain finds no handler.
\* compressedImagePromise is awaited only by getNewImages and only after
\* originalImagePromise: a failed fetch or render rejects both and the second
\* is never awaited; a failed compression is awaited only if the replace
\* stage is already waiting in getNewImages (p is where backupImage is).
LeftUnobserved(img, p) ==
    \/ img.status \in {"upstream-error", "partial-failure"}
    \/ img.status = "compress-error" /\ p # "awaitNewImages"

\* An invocation ends by throwing.
Throws ==
    /\ pc' = "idle"
    /\ result' = "error"

\* backupImage is called: the preload chain and both tag reads are started.
BackupImageStart ==
    /\ pc = "idle"
    /\ runs < MaxRuns
    /\ \E f \in BOOLEAN : force' = f
    /\ pc' = "loadTagging"
    /\ newImages' = PreloadedAtCall
    /\ tagging' = "unset"
    /\ backupTagging' = "unset"
    /\ didSaveBackup' = "unset"
    /\ didReplaceOriginal' = "unset"
    /\ snapshotDecision' = "unset"
    /\ replaceDecision' = "unset"
    /\ issued' = <<>>
    /\ failed' = {}
    /\ result' = "none"
    /\ obj0' = obj
    /\ prev' = [force |-> force, result |-> result]
    /\ runs' = runs + 1
    /\ UNCHANGED <<obj, pending, kWritten>>
    /\ UNCHANGED nonWorkflowVars

\* The preloaded fetch/render/compress chain settles, at any time after the
\* call, with a failure or with the two images.
NewImagesSettle ==
    /\ newImages.status = "pending"
    /\ runs > 0
    /\ \E img \in SettledImages :
         /\ newImages' = img
         /\ unhandled' = (unhandled \/ LeftUnobserved(img, pc))
    /\ UNCHANGED <<obj, force, pc, runLocals, pending, issued, failed, result, obj0,
                   prev, kWritten, runs>>
    /\ UNCHANGED <<retryVars, cacheVars, poolVars, batchVars, keyVars, timeoutVars>>

\* Variant without the `if (!tagging) throw` check: a missing original does
\* not stop the run.
LoadImageTaggingDoneNoNullCheck ==
    /\ pc = "loadTagging"
    /\ tagging' = loadImageTagging(obj, key)
    /\ backupTagging' = loadImageTagging(obj, backupKey)
    /\ pc' = "backup"
    /\ UNCHANGED <<obj, force, newImages, didSaveBackup, didReplaceOriginal,
                   snapshotDecision, replaceDecision, pending, issued, failed,
                   result, obj0, prev, kWritten, runs>>
    /\ UNCHANGED nonWorkflowVars

\* Both tag reads return; a missing original throws "Image not found".
LoadImageTaggingDone ==
    /\ pc = "loadTagging"
    /\ tagging' = loadImageTagging(obj, key)
    /\ backupTagging' = loadImageTagging(obj, backupKey)
    /\ IF tagging' = "null"
       THEN Throws
       ELSE pc' = "backup" /\ UNCHANGED result
    /\ UNCHANGED <<obj, force, newImages, didSaveBackup, didReplaceOriginal,
                   snapshotDecision, replaceDecision, pending, issued, failed, obj0,
                   prev, kWritten, runs>>
    /\ UNCHANGED nonWorkflowVars

\* A tag read fails with an error other than NoSuchKey.
LoadImageTaggingFails ==
    /\ pc = "loadTagging"
    /\ Throws
    /\ UNCHANGED <<obj, force, runLocals, newImages, pending, issued, failed, obj0,
                   prev, kWritten, runs>>
    /\ UNCHANGED nonWorkflowVars

\* saveBackupIfNotAlreadyDone returns false without copying.
SaveBackupSkip ==
    /\ pc = "backup"
    /\ SnapshotGate(force, backupTagging) # "Proceed"
    /\ snapshotDecision' = SnapshotGate(force, backupTagging)
    /\ didSaveBackup' = "false"
    /\ pc' = "replace"
    /\ UNCHANGED <<obj, force, tagging, backupTagging, newImages,
                   didReplaceOriginal, replaceDecision, pending, issued, failed,
                   result, obj0, prev, kWritten, runs>>
    /\ UNCHANGED nonWorkflowVars

\* saveBackupIfNotAlreadyDone issues the copy to K.bkup and awaits it.
SaveBackupIssueCopy ==
    /\ pc = "backup"
    /\ SnapshotGate(force, backupTagging) = "Proceed"
    /\ snapshotDecision' = "Proceed"
    /\ pending' = pending \cup {"copyObject-backup"}
    /\ issued' = Append(issued, "copyObject-backup")
    /\ pc' = "awaitBackupCopy"
    /\ UNCHANGED <<obj, force, tagging, backupTagging, newImages,
                   didSaveBackup, didReplaceOriginal, replaceDecision,
                   failed, result, obj0, prev, kWritten, runs>>
    /\ UNCHANGED nonWorkflowVars

\* The copy issued without its Tagging parameter.
CopyBackupDoneUntagged ==
    /\ "copyObject-backup" \in pending
    /\ pending' = pending \ {"copyObject-backup"}
    /\ obj' = [obj EXCEPT ![backupKey] = Object(obj[key].body, "undefined")]
    /\ IF pc = "awaitBackupCopy"
       THEN didSaveBackup' = "true" /\ pc' = "replace"
       ELSE UNCHANGED <<didSaveBackup, pc>>
    /\ UNCHANGED <<force, tagging, backupTagging, newImages,
                   didReplaceOriginal, snapshotDecision, replaceDecision,
                   issued, failed, result, obj0, prev, kWritten, runs>>
    /\ UNCHANGED nonWorkflowVars

\* The copy succeeds: K.bkup holds K's bytes, tagged backup.
CopyBackupDone ==
    /\ "copyObject-backup" \in pending
    /\ pending' = pending \ {"copyObject-backup"}
    /\ obj' = [obj EXCEPT ![backupKey] = Object(obj[key].body, "backup")]
    /\ IF pc = "awaitBackupCopy"
       THEN didSaveBackup' = "true" /\ pc' = "replace"
       ELSE UNCHANGED <<didSaveBackup, pc>>
    /\ UNCHANGED <<force, tagging, backupTagging, newImages,
                   didReplaceOriginal, snapshotDecision, replaceDecision,
                   issued, failed, result, obj0, prev, kWritten, runs>>
    /\ UNCHANGED nonWorkflowVars

\* The copy fails and saveBackupIfNotAlreadyDone swallows the error.
CopyBackupFailsSwallowed ==
    /\ "copyObject-backup" \in pending
    /\ pc = "awaitBackupCopy"
    /\ pending' = pending \ {"copyObject-backup"}
    /\ failed' = failed \cup {"copyObject-backup"}
    /\ didSaveBackup' = "false"
    /\ pc' = "replace"
    /\ UNCHANGED <<obj, force, tagging, backupTagging, newImages,
                   didReplaceOriginal, snapshotDecision, replaceDecision,
                   issued, result, obj0, prev, kWritten, runs>>
    /\ UNCHANGED nonWorkflowVars

\* The copy fails, leaving the store as it was: the error propagates out of
\* backupImage.
CopyBackupFails ==
    /\ "copyObject-backup" \in pending
    /\ pc = "awaitBackupCopy"
    /\ pending' = pending \ {"copyObject-backup"}
    /\ failed' = failed \cup {"copyObject-backup"}
    /\ Throws
    /\ UNCHANGED <<obj, force, runLocals, newImages, issued, obj0, prev,
                   kWritten, runs>>
    /\ UNCHANGED nonWorkflowVars

\* replaceOriginalIfNotAlreadyDone returns null without touching K.
ReplaceSkip ==
    /\ ReplaceStageMayStart(pc)
    /\ ReplaceGate(force, tagging) \notin {"Proceed", "Throw"}
    /\ replaceDecision' = ReplaceGate(force, tagging)
    /\ didReplaceOriginal' = "null"
    /\ pc' = "return"
    /\ UNCHANGED <<obj, force, tagging, backupTagging, newImages,
                   didSaveBackup, snapshotDecision, pending, issued, failed, result,
                   obj0, prev, kWritten, runs>>
    /\ UNCHANGED nonWorkflowVars

\* replaceOriginalIfNotAlreadyDone passes its gate and awaits getNewImages.
ReplaceProceed ==
    /\ ReplaceStageMayStart(pc)
    /\ ReplaceGate(force, tagging) = "Proceed"
    /\ replaceDecision' = "Proceed"
    /\ pc' = "awaitNewImages"
    /\ UNCHANGED <<obj, force, tagging, backupTagging, newImages,
                   didSaveBackup, didReplaceOriginal, snapshotDecision,
                   pending, issued, failed, result, obj0, prev, kWritten, runs>>
    /\ UNCHANGED nonWorkflowVars

\* Variant in which a rejected getNewImages is swallowed and the stage
\* returns null instead of throwing.
NewImagesRejectedSwallowed ==
    /\ pc = "awaitNewImages"
    /\ newImages.status \in RejectedStatuses
    /\ didReplaceOriginal' = "null"
    /\ pc' = "return"
    /\ UNCHANGED <<obj, force, tagging, backupTagging, newImages,
                   didSaveBackup, snapshotDecision, replaceDecision, pending,
                   issued, failed, result, obj0, prev, kWritten, runs>>
    /\ UNCHANGED nonWorkflowVars

\* getNewImages rejects: the fetch, the render or the compression failed.
NewImagesRejected ==
    /\ pc = "awaitNewImages"
    /\ newImages.status \in RejectedStatuses
    /\ Throws
    /\ UNCHANGED <<obj, force, runLocals, newImages, pending, issued, failed, obj0,
                   prev, kWritten, runs>>
    /\ UNCHANGED nonWorkflowVars

\* getNewImages resolves: the sizes are compared and one write is issued.
ReplaceIssueWrite ==
    /\ pc = "awaitNewImages"
    /\ newImages.status = "success"
    /\ pending' = pending \cup {ReplaceWrite(newImages)}
    /\ issued' = Append(issued, ReplaceWrite(newImages))
    /\ pc' = "awaitReplaceWrite"
    /\ UNCHANGED <<obj, force, runLocals, newImages, failed, result, obj0,
                   prev, kWritten, runs>>
    /\ UNCHANGED nonWorkflowVars

\* The self-copy succeeds: only K's tag changes.
CopyCompressionFailedDone ==
    /\ pc = "awaitReplaceWrite"
    /\ "copyObject-compressionFailed" \in pending
    /\ pending' = pending \ {"copyObject-compressionFailed"}
    /\ obj' = [obj EXCEPT ![key] = Object(obj[key].body, "compression-failed")]
    /\ didReplaceOriginal' = "true"
    /\ kWritten' = TRUE
    /\ pc' = "return"
    /\ UNCHANGED <<force, tagging, backupTagging, newImages, didSaveBackup,
                   snapshotDecision, replaceDecision, issued, failed, result, obj0,
                   prev, runs>>
    /\ UNCHANGED nonWorkflowVars

\* putObject succeeds: K holds the compressed bytes, tagged compressed.
PutCompressedDone ==
    /\ pc = "awaitReplaceWrite"
    /\ "putObject-compressed" \in pending
    /\ pending' = pending \ {"putObject-compressed"}
    /\ obj' = [obj EXCEPT ![key] =
                 Object(<<"compressed", newImages.compressedSize>>, "compressed")]
    /\ didReplaceOriginal' = "true"
    /\ kWritten' = TRUE
    /\ pc' = "return"
    /\ UNCHANGED <<force, tagging, backupTagging, newImages, didSaveBackup,
                   snapshotDecision, replaceDecision, issued, failed, result, obj0,
                   prev, runs>>
    /\ UNCHANGED nonWorkflowVars

\* The replace-stage write fails: the error propagates out of backupImage.
ReplaceWriteFails ==
    /\ pc = "awaitReplaceWrite"
    /\ pending \cap ReplaceWrites # {}
    /\ pending' = pending \ ReplaceWrites
    /\ failed' = failed \cup (pending \cap ReplaceWrites)
    /\ Throws
    /\ UNCHANGED <<obj, force, runLocals, newImages, issued, obj0, prev,
                   kWritten, runs>>
    /\ UNCHANGED nonWorkflowVars

\* Variant returning only the replace stage's result.
BackupImageReturnReplaceOnly ==
    /\ pc = "return"
    /\ result' = didReplaceOriginal
    /\ pc' = "idle"
    /\ UNCHANGED <<obj, force, runLocals, newImages, pending, issued, failed, obj0,
                   prev, kWritten, runs>>
    /\ UNCHANGED nonWorkflowVars

\* return didSaveBackup || didReplaceOriginal
BackupImageReturn ==
    /\ pc = "return"
    /\ result' = JsOr(didSaveBackup, didReplaceOriginal)
    /\ pc' = "idle"
    /\ UNCHANGED <<obj, force, runLocals, newImages, pending, issued, failed, obj0,
                   prev, kWritten, runs>>
    /\ UNCHANGED nonWorkflowVars

Next ==
    \/ BackupImageStart
    \/ NewImagesSettle
    \/ LoadImageTaggingDone
    \/ LoadImageTaggingFails
    \/ SaveBackupSkip
    \/ SaveBackupIssueCopy
    \/ CopyBackupDone
    \/ CopyBackupFails
    \/ ReplaceSkip
    \/ ReplaceProceed
    \/ NewImagesRejected
    \/ ReplaceIssueWrite
    \/ CopyCompressionFailedDone
    \/ PutCompressedDone
    \/ ReplaceWriteFails
    \/ BackupImageReturn

Spec == Init /\ [][Next]_vars

(* ------------------------ the outfit data cache ------------------------ *)

\* new LRUCache(NUM_WORKERS * 2): the cache's max.
CacheMax == NUM_WORKERS * 2

MaxFetches == CacheMax + ExtraFetches

\* Outfit ids the keys name: enough to overflow the cache.
OutfitIds == 1..(CacheMax + 1)

\* How the promise of loadOutfitData settles: fulfilled with the response
\* body (the outfit, or an errors list the caller inspects), or rejected
\* because the request or the parsing of its body failed.
FetchOutcomes == {"fulfilled", "rejected"}

\* Position of the entry for id in the cache, 0 if there is none.
CacheIndex(c, id) ==
    IF \E i \in DOMAIN c : c[i].id = id
    THEN CHOOSE i \in DOMAIN c : c[i].id = id
    ELSE 0

\* Variant of the cache's get that leaves the recency order alone.
LruGetNoRefresh(c, id) == c

\* The cache after get(id): a hit makes the entry the most recently used.
LruGet(c, id) ==
    LET i == CacheIndex(c, id)
    IN  IF i = 0 THEN c
        ELSE SubSeq(c, 1, i - 1) \o SubSeq(c, i + 1, Len(c)) \o <<c[i]>>

\* Variant of the cache's set that never drops an entry.
LruSetUnbounded(c, e) == Append(c, e)

\* The cache after set(id, promise) for an id it does not hold: the entry is
\* the most recently used, and the least recently used one is dropped if
\* the cache is over its max.
LruSet(c, e) ==
    LET d == Append(c, e)
    IN  IF Len(d) > CacheMax THEN Tail(d) ELSE d

\* Variant of the miss path that does not store the promise.
CacheAfterMissNotStored(c, e) == c

\* The cache after the miss path of loadOutfitDataWithCaching.
CacheAfterMiss(c, e) == LruSet(LruGet(c, e.id), e)

\* The ids requested so far.  Ids are interchangeable, so the first request
\* of a new id is made with the smallest id not requested yet.
KnownIds == {fetches[f].id : f \in DOMAIN fetches}

NextIds == KnownIds \cup ({Cardinality(KnownIds) + 1} \cap OutfitIds)

\* loadOutfitDataWithCaching finds a promise for the id and awaits it.
CacheHit ==
    \E id \in OutfitIds :
        LET i == CacheIndex(cache, id)
        IN  /\ i # 0
            /\ cache' = LruGet(cache, id)
            /\ lastCall' = [id |-> id, fetch |-> cache[i].fetch, hit |-> TRUE]
            /\ UNCHANGED <<workflowVars, retryVars, poolVars, laterVars, fetches>>

\* loadOutfitDataWithCaching finds nothing, calls loadOutfitData and stores
\* the promise before awaiting it.
CacheMiss ==
    \E id \in NextIds :
        /\ CacheIndex(cache, id) = 0
        /\ Len(fetches) < MaxFetches
        /\ fetches' = Append(fetches, [id |-> id, status |-> "pending"])
        /\ cache' = CacheAfterMiss(cache, [id |-> id, fetch |-> Len(fetches) + 1])
        /\ lastCall' = [id |-> id, fetch |-> Len(fetches) + 1, hit |-> FALSE]
        /\ UNCHANGED <<workflowVars, retryVars, poolVars, laterVars>>

\* Variant in which a rejected promise is taken out of the cache.
LoadOutfitDataSettlesDropsFailure ==
    \E f \in DOMAIN fetches, o \in FetchOutcomes :
        /\ fetches[f].status = "pending"
        /\ fetches' = [fetches EXCEPT ![f].status = o]
        /\ cache' = IF o = "rejected"
                    THEN SelectSeq(cache, LAMBDA e : e.fetch # f)
                    ELSE cache
        /\ UNCHANGED <<workflowVars, retryVars, poolVars, laterVars, lastCall>>

\* The promise of one loadOutfitData call settles.
LoadOutfitDataSettles ==
    \E f \in DOMAIN fetches, o \in FetchOutcomes :
        /\ fetches[f].status = "pending"
        /\ fetches' = [fetches EXCEPT ![f].status = o]
        /\ UNCHANGED <<workflowVars, retryVars, poolVars, laterVars, cache, lastCall>>

CacheInit ==
    /\ WorkflowIdle
    /\ RetryIdle
    /\ CacheIdle
    /\ PoolIdle
    /\ LaterIdle

CacheNext ==
    \/ CacheHit
    \/ CacheMiss
    \/ LoadOutfitDataSettles

SpecCache == CacheInit /\ [][CacheNext]_vars

(* ------------------- runs cut short and made again -------------------- *)

\* backupImage is called by a process started without --force.
BackupImageStartNotForced ==
    /\ BackupImageStart
    /\ ~force'

\* The process running backupImage stops between two store operations:
\* whatever it has written stays, and nothing more is issued by this run.
RunInterrupted ==
    /\ pc # "idle"
    /\ pending = {}
    /\ pc' = "idle"
    /\ result' = "interrupted"
    /\ UNCHANGED <<obj, force, runLocals, newImages, pending, issued, failed, obj0,
                   prev, kWritten, runs>>
    /\ UNCHANGED nonWorkflowVars

RerunNext ==
    \/ BackupImageStartNotForced
    \/ RunInterrupted
    \/ NewImagesSettle
    \/ LoadImageTaggingDone
    \/ LoadImageTaggingFails
    \/ SaveBackupSkip
    \/ SaveBackupIssueCopy
    \/ CopyBackupDone
    \/ CopyBackupFails
    \/ ReplaceSkip
    \/ ReplaceProceed
    \/ NewImagesRejected
    \/ ReplaceIssueWrite
    \/ CopyCompressionFailedDone
    \/ PutCompressedDone
    \/ ReplaceWriteFails
    \/ BackupImageReturn

SpecRerun == Init /\ [][RerunNext]_vars

(* ----------------- one key through backupImageWithRetries -------------- *)

\* promiseRetry's retries option in backupImageWithRetries.
Retries == 5

\* Variant that rejects with the error of the first attempt.
RejectedWithFirstError(lastAttempt) == 1

\* With its retries used up, promiseRetry rejects with the error the last
\* attempt passed to retry(); errors are named by the attempt that threw.
RejectedWith(lastAttempt) == lastAttempt

\* Variant of promiseRetry that does not wait for the attempt under way.
PreviousAttemptSettledOrNot(p, r) == TRUE

\* promiseRetry makes another attempt only from the rejection handler of the
\* promise the attempt before returned: backupImage has thrown.
PreviousAttemptSettled(p, r) == p = "idle" /\ r = "error"

\* promiseRetry calls its function: the first attempt, or the next one after
\* retry(err) while attempts remain.  Every attempt calls backupImage anew.
AttemptStarts ==
    /\ ~settled
    /\ attempt = 0 \/ PreviousAttemptSettled(pc, result)
    /\ attempt < Retries + 1
    /\ attempt' = attempt + 1
    /\ pc' = "loadTagging"
    /\ newImages' = PreloadedAtCall
    /\ tagging' = "unset"
    /\ backupTagging' = "unset"
    /\ didSaveBackup' = "unset"
    /\ didReplaceOriginal' = "unset"
    /\ snapshotDecision' = "unset"
    /\ replaceDecision' = "unset"
    /\ issued' = <<>>
    /\ failed' = {}
    /\ result' = "none"
    /\ obj0' = obj
    /\ prev' = [force |-> force, result |-> result]
    /\ runs' = runs + 1
    /\ UNCHANGED <<obj, force, pending, kWritten, settled, numImageKeyNoOps,
                   backupFailures, failureErrors, poolVars, laterVars>>

\* An attempt whose getOutfitData is left out of the picture.
RetryAttemptStart ==
    /\ AttemptStarts
    /\ UNCHANGED cacheVars

\* An attempt returned: promiseRetry resolves with its result and the
\* producer's then-callback counts a falsy result as a no-op.
KeyResolved ==
    /\ pc = "idle"
    /\ ~settled
    /\ attempt >= 1
    /\ result \in {"true", "false", "null"}
    /\ numImageKeyNoOps' =
         IF ~Truthy(result) THEN numImageKeyNoOps + 1 ELSE numImageKeyNoOps
    /\ settled' = TRUE
    /\ UNCHANGED <<workflowVars, attempt, backupFailures, failureErrors,
                   cacheVars, poolVars, laterVars>>

\* The last attempt threw: promiseRetry rejects with its error and the
\* producer's catch-callback records the key.
KeyGivenUp ==
    /\ pc = "idle"
    /\ ~settled
    /\ result = "error"
    /\ attempt = Retries + 1
    /\ backupFailures' = Append(backupFailures, key)
    /\ failureErrors' = Append(failureErrors, RejectedWith(attempt))
    /\ settled' = TRUE
    /\ UNCHANGED <<workflowVars, attempt, numImageKeyNoOps, cacheVars, poolVars,
                   laterVars>>

RetryInit ==
    /\ StoreInit
    /\ force \in BOOLEAN
    /\ RunIdle
    /\ RetryIdle
    /\ CacheIdle
    /\ PoolIdle
    /\ LaterIdle

RetryNext ==
    \/ RetryAttemptStart
    \/ KeyResolved
    \/ KeyGivenUp
    \/ NewImagesSettle
    \/ LoadImageTaggingDone
    \/ LoadImageTaggingFails
    \/ SaveBackupSkip
    \/ SaveBackupIssueCopy
    \/ CopyBackupDone
    \/ CopyBackupFails
    \/ ReplaceSkip
    \/ ReplaceProceed
    \/ NewImagesRejected
    \/ ReplaceIssueWrite
    \/ CopyCompressionFailedDone
    \/ PutCompressedDone
    \/ ReplaceWriteFails
    \/ BackupImageReturn

SpecRetry == RetryInit /\ [][RetryNext]_vars

(* ------------- the key's attempts and the outfit data cache ----------- *)

\* The outfit id the key's path segments spell.
KeyOutfitId == 1

\* The preloaded chain rejected because the outfit data could not be had.
UpstreamFailed == [status |-> "upstream-error", originalSize |-> 0, compressedSize |-> 0]

\* Variant of loadOutfitDataWithCaching that never finds an entry.
CachedFetchForAttemptNone(c, id) == 0

\* The promise cache.get(outfitId) returns to an attempt, 0 for undefined.
CachedFetchForAttempt(c, id) ==
    IF CacheIndex(c, id) = 0 THEN 0 ELSE c[CacheIndex(c, id)].fetch

\* An attempt starts: backupImage calls buildOutfitImage, which calls
\* getOutfitData, that is loadOutfitDataWithCaching for the key's id, before
\* anything is awaited.
RetryAttemptStartCached ==
    /\ AttemptStarts
    /\ LET f == CachedFetchForAttempt(cache, KeyOutfitId)
       IN  IF f # 0
           THEN /\ cache' = LruGet(cache, KeyOutfitId)
                /\ lastCall' = [id |-> KeyOutfitId, fetch |-> f, hit |-> TRUE]
                /\ fetches' = fetches
           ELSE /\ fetches' = Append(fetches, [id |-> KeyOutfitId, status |-> "pending"])
                /\ cache' = CacheAfterMiss(cache, [id |-> KeyOutfitId,
                                                     fetch |-> Len(fetches) + 1])
                /\ lastCall' = [id |-> KeyOutfitId, fetch |-> Len(fetches) + 1,
                                hit |-> FALSE]

\* The chain of the attempt under way settles once its outfit data promise
\* has: a rejected promise rejects the chain; fulfilled data may carry
\* errors, fail to render or to compress, or give the two images.
NewImagesSettleCached ==
    /\ newImages.status = "pending"
    /\ runs > 0
    /\ fetches[lastCall.fetch].status # "pending"
    /\ \E img \in SettledImages :
         /\ fetches[lastCall.fetch].status = "rejected" => img = UpstreamFailed
         /\ newImages' = img
         /\ unhandled' = (unhandled \/ LeftUnobserved(img, pc))
    /\ UNCHANGED <<obj, force, pc, runLocals, pending, issued, failed, result, obj0,
                   prev, kWritten, runs>>
    /\ UNCHANGED <<retryVars, cacheVars, poolVars, batchVars, keyVars, timeoutVars>>

\* The workflows of other keys have requested enough other ids to push the
\* entry of the key's id out of the cache.
OtherKeysEvict ==
    /\ cache # <<>>
    /\ Len(fetches) <= MaxEvictions
    /\ attempt >= 1
    /\ ~settled
    /\ cache' = <<>>
    /\ UNCHANGED <<workflowVars, retryVars, poolVars, laterVars, fetches, lastCall>>

\* One key, not forced, with an empty cache: the original is missing, new
\* or already compressed, and its backup is missing or has been made.
RetryCacheInit ==
    /\ \E k \in {NoObject} \cup {Object(<<"original", n>>, t) :
                                   n \in Lens, t \in {"undefined", "compressed"}},
          b \in {NoObject, Object(<<"earlier", 1>>, "backup")} :
            obj = [x \in Keys |-> IF x = key THEN k ELSE b]
    /\ force = FALSE
    /\ RunIdle
    /\ RetryIdle
    /\ CacheIdle
    /\ PoolIdle
    /\ LaterIdle

RetryCacheNext ==
    \/ RetryAttemptStartCached
    \/ LoadOutfitDataSettles
    \/ NewImagesSettleCached
    \/ OtherKeysEvict
    \/ KeyResolved
    \/ KeyGivenUp
    \/ LoadImageTaggingDone
    \/ LoadImageTaggingFails
    \/ SaveBackupSkip
    \/ SaveBackupIssueCopy
    \/ CopyBackupDone
    \/ CopyBackupFails
    \/ ReplaceSkip
    \/ ReplaceProceed
    \/ NewImagesRejected
    \/ ReplaceIssueWrite
    \/ CopyCompressionFailedDone
    \/ PutCompressedDone
    \/ ReplaceWriteFails
    \/ BackupImageReturn

SpecRetryCache == RetryCacheInit /\ [][RetryCacheNext]_vars

(* ----------------------- one page through the pool --------------------- *)

Unclaimed == [status |-> "unclaimed", attempt |-> 0, value |-> "none"]

\* The key's workflow is in its a-th attempt.
Running(a) == [status |-> "running", attempt |-> a, value |-> "none"]

\* Variant of the pool's test that ignores the concurrency.
PoolHasRoomAlways(size) == TRUE

\* The pool calls the producer only while fewer than NUM_WORKERS promises
\* are in flight.
PoolHasRoom(size) == size < NUM_WORKERS

\* Variant of the producer that does not advance its index.
NextIndexNotIncremented(idx) == idx

\* imageKeyIndex++
NextIndex(idx) == idx + 1

\* The pool's loop: while there is room and the producer has not returned
\* null, call the producer; it hands out the key at imageKeyIndex, whose
\* first attempt starts at once, or returns null when the keys are used up.
\* st holds the loop's view of imageKeyIndex, the pool's size and done flag,
\* the indices handed out, the items and imageKeys.length.
RECURSIVE Proceed(_)
Proceed(st) ==
    IF st.done \/ ~PoolHasRoom(st.size) THEN st
    ELSE IF st.idx < st.n
         THEN Proceed([st EXCEPT !.idx = NextIndex(st.idx),
                                 !.size = @ + 1,
                                 !.claimed = Append(@, st.idx + 1),
                                 !.item[st.idx + 1] = Running(1)])
         ELSE [st EXCEPT !.done = TRUE]

\* Variant in which the pool settles as soon as the producer is done.
PoolSettlesWhenDone(done, size) == done

\* The pool's promise settles once the producer has returned null and no
\* promise is in flight.
PoolSettles(done, size) == done /\ size = 0

\* The pool runs its loop from st0 and settles if it can.
PoolRuns(st0) ==
    LET st == Proceed(st0)
    IN  /\ imageKeyIndex' = st.idx
        /\ poolSize' = st.size
        /\ poolDone' = st.done
        /\ claimed' = st.claimed
        /\ item' = st.item
        /\ poolState' = IF PoolSettles(st.done, st.size)
                        THEN "settled" ELSE "running"

\* The pool, with freed promises fewer in flight (none at start), runs its
\* loop and settles once the producer is done and nothing is in flight.
PoolProceeds(items, freed) ==
    PoolRuns([idx |-> imageKeyIndex, size |-> poolSize - freed,
              done |-> poolDone, claimed |-> claimed, item |-> items,
              n |-> imageKeys])

\* pool.start()
PoolStart ==
    /\ poolState = "idle"
    /\ PoolProceeds(item, 0)
    /\ UNCHANGED <<workflowVars, retryVars, cacheVars, laterVars, imageKeys, alwaysFailing>>

\* An attempt of a key's workflow throws and promiseRetry schedules the
\* next one.
PoolAttemptRetried ==
    \E i \in DOMAIN item :
        /\ item[i].status = "running"
        /\ item[i].attempt < Retries + 1
        /\ i \in alwaysFailing \/ item[i].attempt <= MaxTransient
        /\ item' = [item EXCEPT ![i] = Running(item[i].attempt + 1)]
        /\ UNCHANGED <<workflowVars, retryVars, cacheVars, laterVars, imageKeys,
                       alwaysFailing, imageKeyIndex, claimed, poolSize,
                       poolDone, poolState>>

\* The last attempt of a key throws: the producer's catch-callback records
\* the key and the pool, one promise down, runs its loop.
PoolKeyGivenUp ==
    \E i \in DOMAIN item :
        /\ item[i].status = "running"
        /\ item[i].attempt = Retries + 1
        /\ i \in alwaysFailing
        /\ backupFailures' = Append(backupFailures, pageImageKeys[i])
        /\ failureErrors' = Append(failureErrors, RejectedWith(item[i].attempt))
        /\ PoolProceeds([item EXCEPT ![i].status = "failure"], 1)
        /\ UNCHANGED <<workflowVars, attempt, settled, numImageKeyNoOps,
                       cacheVars, laterVars, imageKeys, alwaysFailing>>

\* Variant whose then-callback counts every result as a no-op.
PoolKeyResolvedCountsAll ==
    \E i \in DOMAIN item, didMakeChanges \in {"true", "false"} :
        /\ item[i].status = "running"
        /\ i \notin alwaysFailing
        /\ numImageKeyNoOps' = numImageKeyNoOps + 1
        /\ PoolProceeds([item EXCEPT ![i].status = "result",
                                     ![i].value = didMakeChanges], 1)
        /\ UNCHANGED <<workflowVars, attempt, settled, backupFailures,
                       failureErrors, cacheVars, laterVars, imageKeys, alwaysFailing>>

\* An attempt of a key returns: the producer's then-callback counts a falsy
\* result as a no-op and the pool, one promise down, runs its loop.
PoolKeyResolved ==
    \E i \in DOMAIN item, didMakeChanges \in {"true", "false"} :
        /\ item[i].status = "running"
        /\ i \notin alwaysFailing
        /\ numImageKeyNoOps' =
             IF ~Truthy(didMakeChanges) THEN numImageKeyNoOps + 1
             ELSE numImageKeyNoOps
        /\ PoolProceeds([item EXCEPT ![i].status = "result",
                                     ![i].value = didMakeChanges], 1)
        /\ UNCHANGED <<workflowVars, attempt, settled, backupFailures,
                       failureErrors, cacheVars, laterVars, imageKeys, alwaysFailing>>

\* A page of image keys, some of which always fail, before the pool starts.
PoolInit ==
    /\ WorkflowIdle
    /\ RetryIdle
    /\ CacheIdle
    /\ imageKeys \in 0..MaxImageKeys
    /\ alwaysFailing \in SUBSET (1..imageKeys)
    /\ imageKeyIndex = 0
    /\ claimed = <<>>
    /\ item = [i \in 1..imageKeys |-> Unclaimed]
    /\ poolSize = 0
    /\ poolDone = FALSE
    /\ poolState = "idle"
    /\ unhandled = FALSE
    /\ MainIdle
    /\ pageImageKeys = [i \in 1..imageKeys |-> i]
    /\ TimeoutIdle
    /\ KeyIdle

PoolNext ==
    \/ PoolStart
    \/ PoolAttemptRetried
    \/ PoolKeyGivenUp
    \/ PoolKeyResolved

SpecPool == PoolInit /\ [][PoolNext]_vars

(* -------------------------- main's page loop -------------------------- *)

\* promiseRetry's retries option for the listing.
ListRetries == 10

\* The keys under the prefix, in the order S3 lists them.  Key 3n+1 ends in
\* .png, key 3n+2 is that key followed by .bkup, which sorts right after
\* it, and key 3n+3 ends in neither.
AllKeys == 1..(3 * MaxOutfits)

\* Variant of promiseRetry that counts the first attempt as a retry.
ListAttemptsWithoutFirst == ListRetries

\* The attempts promiseRetry makes at a listing: the first and the retries.
ListAttempts == ListRetries + 1

\* Variant of the filter that also lets backup keys through.
IsImageKeyOrBackupKey(k) == k % 3 \in {1, 2}

\* key.endsWith(".png")
IsImageKey(k) == k % 3 = 1

\* key.endsWith(".png.bkup")
IsImageBackupKey(k) == k % 3 = 2

\* key + ".bkup"
BackupKeyOf(k) == k + 1

\* Variant of StartAfter that includes the cursor itself.
KeysAfterInclusive(b, cursor) == {k \in b : k >= cursor}

\* StartAfter: the keys of the bucket strictly after the cursor (all of
\* them for the null cursor, 0).
KeysAfter(b, cursor) == {k \in b : k > cursor}

RECURSIVE Sorted(_)
Sorted(S) ==
    IF S = {} THEN <<>>
    ELSE LET m == CHOOSE x \in S : \A y \in S : x <= y
         IN  <<m>> \o Sorted(S \ {m})

\* What getImageKeys(s3, startAfter) resolves to: at most MaxKeys keys
\* after the cursor, in order.
getImageKeys(b, startAfter) ==
    LET all == Sorted(KeysAfter(b, startAfter))
    IN  IF Len(all) > MaxKeysPerPage THEN SubSeq(all, 1, MaxKeysPerPage) ELSE all

\* Variant that moves the cursor to the page's last image key.
NewCursorLastImageKey(ks) ==
    LET imgs == SelectSeq(ks, IsImageKey)
    IN  IF imgs = <<>> THEN ks[1] ELSE imgs[Len(imgs)]

\* lastKey = keys[keys.length - 1]
NewCursor(ks) == ks[Len(ks)]

\* A failed listing attempt that also sends the cursor back to the start.
ListingAttemptFailsResetsCursor ==
    /\ mainPc = "list"
    /\ listAttempt < ListAttempts
    /\ listAttempt' = listAttempt + 1
    /\ lastKey' = 0
    /\ UNCHANGED <<workflowVars, retryVars, cacheVars, poolVars, processVars,
                   timeoutVars, keyVars, bucket, mainPc, keys, pageImageKeys,
                   numKeys, numImageKeys, numImageBackupKeys, exitCode, pages>>

\* A listing attempt fails and promiseRetry makes the next one.
ListingAttemptFails ==
    /\ mainPc = "list"
    /\ listAttempt < ListAttempts
    /\ listAttempt' = listAttempt + 1
    /\ UNCHANGED <<workflowVars, retryVars, cacheVars, poolVars, processVars,
                   timeoutVars, keyVars, bucket, lastKey, mainPc, keys, pageImageKeys,
                   numKeys, numImageKeys, numImageBackupKeys, exitCode, pages>>

\* The last listing attempt fails: main returns 1 and the process exits
\* with that code.
ListingGivenUp ==
    /\ mainPc = "list"
    /\ listAttempt = ListAttempts
    /\ mainPc' = "failed"
    /\ exitCode' = 1
    /\ UNCHANGED <<workflowVars, retryVars, cacheVars, poolVars, processVars,
                   timeoutVars, keyVars, bucket, lastKey, listAttempt, keys,
                   pageImageKeys, numKeys, numImageKeys, numImageBackupKeys,
                   pages>>

\* The listing returns no key: the loop breaks, main prints its summary and
\* returns undefined, and the process exits with the default code 0.
ListingReturnsEmpty ==
    /\ mainPc = "list"
    /\ getImageKeys(bucket, lastKey) = <<>>
    /\ keys' = <<>>
    /\ pages' = Append(pages, [cursor |-> lastKey, keys |-> <<>>])
    /\ mainPc' = "done"
    /\ exitCode' = 0
    /\ listAttempt' = 0
    /\ UNCHANGED <<workflowVars, retryVars, cacheVars, poolVars, processVars,
                   timeoutVars, keyVars, bucket, lastKey, pageImageKeys, numKeys,
                   numImageKeys, numImageBackupKeys>>

\* The listing returns a page: main filters it, adds to its counts, and
\* starts a pool on the page's image keys, some of which always fail.
ListingReturnsPage ==
    /\ mainPc = "list"
    /\ getImageKeys(bucket, lastKey) # <<>>
    /\ keys' = getImageKeys(bucket, lastKey)
    /\ pages' = Append(pages, [cursor |-> lastKey, keys |-> keys'])
    /\ pageImageKeys' = SelectSeq(keys', IsImageKey)
    /\ numKeys' = numKeys + Len(keys')
    /\ numImageKeys' = numImageKeys + Len(pageImageKeys')
    /\ numImageBackupKeys' =
         numImageBackupKeys + Len(SelectSeq(keys', IsImageBackupKey))
    /\ imageKeys' = Len(pageImageKeys')
    /\ alwaysFailing' \in SUBSET (1..imageKeys')
    /\ PoolRuns([idx |-> 0, size |-> 0, done |-> FALSE, claimed |-> <<>>,
                 item |-> [i \in 1..imageKeys' |-> Unclaimed],
                 n |-> imageKeys'])
    /\ mainPc' = "pool"
    /\ listAttempt' = 0
    /\ UNCHANGED <<workflowVars, retryVars, cacheVars, processVars, timeoutVars, keyVars,
                   bucket, lastKey, exitCode>>

\* pool.start() has resolved: main moves its cursor to the last key of the
\* page and requests the next page.
PageDone ==
    /\ mainPc = "pool"
    /\ poolState = "settled"
    /\ lastKey' = NewCursor(keys)
    /\ mainPc' = "list"
    /\ listAttempt' = 1
    /\ UNCHANGED <<workflowVars, retryVars, cacheVars, poolVars, processVars,
                   timeoutVars, keyVars, bucket, keys, pageImageKeys, numKeys,
                   numImageKeys, numImageBackupKeys, exitCode, pages>>

\* The snapshot copy of a workflow in flight lands: the bucket holds the
\* key's backup key from now on.
BackupCopyLands ==
    \E i \in DOMAIN item :
        /\ mainPc = "pool"
        /\ item[i].status = "running"
        /\ BackupKeyOf(pageImageKeys[i]) \notin bucket
        /\ bucket' = bucket \cup {BackupKeyOf(pageImageKeys[i])}
        /\ UNCHANGED <<workflowVars, retryVars, cacheVars, poolVars, processVars,
                       timeoutVars, keyVars, lastKey, mainPc, listAttempt, keys,
                       pageImageKeys, numKeys, numImageKeys,
                       numImageBackupKeys, exitCode, pages>>

\* The preloaded chain of a workflow started in this run is rejected with no
\* handler attached, while the workflow is in flight or after it returned,
\* and the runtime treats the unhandled rejection as an uncaught error: the
\* process ends with code 1 and every workflow in flight with it.  On a
\* runtime that only warns the rejection changes nothing and is no step.
UnhandledRejectionEndsProcess ==
    /\ mainPc \in {"list", "pool"}
    /\ numImageKeys > 0
    /\ unhandled' = TRUE
    /\ mainPc' = "crashed"
    /\ exitCode' = 1
    /\ item' = [i \in DOMAIN item |->
                  IF item[i].status = "running"
                  THEN [item[i] EXCEPT !.status = "aborted"] ELSE item[i]]
    /\ poolSize' = 0
    /\ UNCHANGED <<workflowVars, retryVars, cacheVars, timeoutVars, keyVars,
                   imageKeys, alwaysFailing, imageKeyIndex, claimed, poolDone,
                   poolState, bucket, lastKey, listAttempt, keys,
                   pageImageKeys, numKeys, numImageKeys, numImageBackupKeys,
                   pages>>

\* main has been called on a bucket and has requested its first page, from
\* the start or from the key given on the command line, a key of the bucket
\* that an earlier run printed.
BatchInit ==
    /\ WorkflowIdle
    /\ RetryIdle
    /\ CacheIdle
    /\ PoolIdle
    /\ unhandled = FALSE
    /\ TimeoutIdle
    /\ KeyIdle
    /\ bucket \in SUBSET AllKeys
    /\ lastKey \in {0} \cup bucket
    /\ mainPc = "list"
    /\ listAttempt = 1
    /\ keys = <<>>
    /\ pageImageKeys = <<>>
    /\ numKeys = 0
    /\ numImageKeys = 0
    /\ numImageBackupKeys = 0
    /\ exitCode = NotExited
    /\ pages = <<>>

BatchNext ==
    \/ ListingAttemptFails
    \/ ListingGivenUp
    \/ ListingReturnsEmpty
    \/ ListingReturnsPage
    \/ PoolAttemptRetried
    \/ PoolKeyGivenUp
    \/ PoolKeyResolved
    \/ PageDone
    \/ BackupCopyLands
    \/ UnhandledRejectionEndsProcess

SpecBatch == BatchInit /\ [][BatchNext]_vars

\* Every listing and every workflow eventually settles.
SpecBatchFair == SpecBatch /\ WF_vars(BatchNext)

(* ------------------- deleteImageTags and its timeout ------------------ *)

\* promiseRetry's retries option in deleteImageTags.
DeleteRetries == 5

\* An attempt as it starts: the deleteObjectTagging request is sent and
\* timeout() has not settled.
NewAttempt == [request |-> "pending", verdict |-> "pending"]

\* Variant of timeout() in which whatever settles last decides.
RacedLastWins(verdict, settledAs) == settledAs

\* timeout(promise, ms) is a race of the request and a timer: the first of
\* the two to settle decides and what settles later changes nothing.
Raced(verdict, settledAs) ==
    IF verdict = "pending" THEN settledAs ELSE verdict

\* What follows once timeout() has settled as v: the then-callback lets
\* promiseRetry resolve; the catch-callback calls retry, which starts the
\* next attempt or, after the last one, rejects, and then the producer's
\* catch-callback records the key.
AttemptDecided(atts, v) ==
    IF v = "success"
    THEN /\ delAttempts' = atts
         /\ delOutcome' = "success"
         /\ deleteFailures' = deleteFailures
    ELSE IF Len(atts) < DeleteRetries + 1
    THEN /\ delAttempts' = Append(atts, NewAttempt)
         /\ delOutcome' = delOutcome
         /\ deleteFailures' = deleteFailures
    ELSE /\ delAttempts' = atts
         /\ delOutcome' = "failure"
         /\ deleteFailures' = Append(deleteFailures, key)

\* The producer calls deleteImageTags for the key: the first attempt sends
\* its request.
DeleteImageTagsCalled ==
    /\ delOutcome = "none"
    /\ delOutcome' = "running"
    /\ delAttempts' = <<NewAttempt>>
    /\ UNCHANGED <<workflowVars, retryVars, cacheVars, poolVars, processVars,
                   batchVars, keyVars, deleteFailures, tagsDeleted>>

\* The request of attempt n settles, in time or late: S3 has deleted the
\* tags, or the request has failed.
RequestSettles ==
    \E n \in DOMAIN delAttempts, how \in {"done", "failed"} :
        /\ delAttempts[n].request = "pending"
        /\ tagsDeleted' = (tagsDeleted \/ how = "done")
        /\ LET v == Raced(delAttempts[n].verdict,
                          IF how = "done" THEN "success" ELSE "error")
               atts == [delAttempts EXCEPT ![n].request = how, ![n].verdict = v]
           IN  IF v # delAttempts[n].verdict
               THEN AttemptDecided(atts, v)
               ELSE /\ delAttempts' = atts
                    /\ UNCHANGED <<delOutcome, deleteFailures>>
        /\ UNCHANGED <<workflowVars, retryVars, cacheVars, poolVars, processVars,
                       batchVars, keyVars>>

\* The timer of the attempt under way fires before its request has
\* settled; the request stays in flight.
AttemptTimesOut ==
    \E n \in DOMAIN delAttempts :
        /\ delAttempts[n].request = "pending"
        /\ delAttempts[n].verdict = "pending"
        /\ AttemptDecided([delAttempts EXCEPT ![n].verdict = "timeout"], "timeout")
        /\ UNCHANGED <<workflowVars, retryVars, cacheVars, poolVars, processVars,
                       batchVars, keyVars, tagsDeleted>>

TimeoutInit ==
    /\ WorkflowIdle
    /\ RetryIdle
    /\ CacheIdle
    /\ PoolIdle
    /\ LaterIdle

TimeoutNext ==
    \/ DeleteImageTagsCalled
    \/ RequestSettles
    \/ AttemptTimesOut

SpecTimeout == TimeoutInit /\ [][TimeoutNext]_vars

(* ---------------- outfit ids and the keys of their images ------------- *)

\* The character "/".
Slash == 47

\* The character "0"; the digits follow it.
Zero == 48

DigitChars == Zero..(Zero + 9)

\* The string "outfits".
Outfits == <<111, 117, 116, 102, 105, 116, 115>>

\* Length the id is padded to, and length of one path segment.
PidLength == 9

SegmentLength == 3

\* String(n) of a non-negative integer: its decimal digits.
RECURSIVE String(_)
String(n) ==
    IF n < 10 THEN <<Zero + n>>
    ELSE Append(String(n \div 10), Zero + (n % 10))

\* Number(s) of a string of decimal digits: leading zeros do not count,
\* and the empty string gives 0.
RECURSIVE Number(_)
Number(s) ==
    IF s = <<>> THEN 0
    ELSE Number(SubSeq(s, 1, Len(s) - 1)) * 10 + (s[Len(s)] - Zero)

\* s.padStart(n, c)
padStart(s, n, c) ==
    IF Len(s) >= n THEN s
    ELSE [i \in 1..n |-> IF i <= n - Len(s) THEN c ELSE s[i - (n - Len(s))]]

\* s.substr(start, length)
substr(s, start, length) ==
    SubSeq(s, start + 1, IF start + length < Len(s) THEN start + length ELSE Len(s))

\* s.split(sep)
RECURSIVE split(_, _)
split(s, sep) ==
    IF \A i \in DOMAIN s : s[i] # sep THEN <<s>>
    ELSE LET i == CHOOSE j \in DOMAIN s :
                      s[j] = sep /\ \A l \in 1..(j - 1) : s[l] # sep
         IN  <<SubSeq(s, 1, i - 1)>> \o split(SubSeq(s, i + 1, Len(s)), sep)

\* a.slice(start, end)
slice(a, start, end) ==
    SubSeq(a, start + 1, IF end < Len(a) THEN end ELSE Len(a))

\* a.join("")
RECURSIVE join(_)
join(a) == IF a = <<>> THEN <<>> ELSE Head(a) \o join(Tail(a))

\* main's baseKey for an outfit id.
baseKey(id) ==
    LET pid == padStart(id, PidLength, Zero)
    IN  Outfits \o <<Slash>> \o substr(pid, 0, SegmentLength)
                \o <<Slash>> \o substr(pid, SegmentLength, SegmentLength)
                \o <<Slash>> \o substr(pid, 2 * SegmentLength, SegmentLength)

\* Variant that reads the id segments of the key without stripping zeros.
OutfitIdOfKeyAsWritten(k) == join(slice(split(k, Slash), 1, 4))

\* backupImageWithRetries' outfitId for a key: the id segments joined, with
\* the leading zeros stripped.
OutfitIdOfKey(k) == String(Number(join(slice(split(k, Slash), 1, 4))))

\* S3_KEY_PATTERN matches the key.
MatchesS3KeyPattern(k) ==
    LET parts == split(k, Slash)
    IN  /\ Len(parts) = 5
        /\ parts[1] = Outfits
        /\ \A i \in 2..4 :
              /\ Len(parts[i]) = SegmentLength
              /\ \A j \in DOMAIN parts[i] : parts[i][j] \in DigitChars
        /\ parts[5] \in Filenames

FILENAME_TO_SIZE_MAP(f) ==
    IF f = SmallPreviewPng THEN 150
    ELSE IF f = MediumPreviewPng THEN 300
    ELSE 600

\* parseS3Key: matched is FALSE where the code returns null.
parseS3Key(k) ==
    LET parts == split(k, Slash)
    IN  IF ~MatchesS3KeyPattern(k)
        THEN [matched |-> FALSE, outfitId |-> 0, imageSize |-> 0]
        ELSE [matched |-> TRUE,
              outfitId |-> Number(parts[2] \o parts[3] \o parts[4]),
              imageSize |-> FILENAME_TO_SIZE_MAP(parts[5])]

\* The digits the ids given to the script are written with.
IdDigitChars == {Zero, Zero + 1, Zero + 9}

\* The outfit ids given to the script: decimal numbers of at most
\* PidLength digits, written without leading zeros.
OutfitIdArgs ==
    {s \in UNION {[1..n -> IdDigitChars] : n \in 1..PidLength} :
        Len(s) > 1 => s[1] # Zero}

\* main builds the keys of the outfit's three images.
MainBuildsKeys ==
    /\ \A f \in Filenames : siblingKeys[f] = <<>>
    /\ siblingKeys' = [f \in Filenames |-> baseKey(outfitId) \o <<Slash>> \o f]
    /\ UNCHANGED <<workflowVars, retryVars, cacheVars, poolVars, processVars,
                   batchVars, timeoutVars, outfitId, keyOutfitId>>

\* backupImageWithRetries reads the outfit id from one of the keys.
KeyOutfitIdRead ==
    \E f \in Filenames :
        /\ siblingKeys[f] # <<>>
        /\ keyOutfitId[f] = <<>>
        /\ keyOutfitId' = [keyOutfitId EXCEPT ![f] = OutfitIdOfKey(siblingKeys[f])]
        /\ UNCHANGED <<workflowVars, retryVars, cacheVars, poolVars, processVars,
                       batchVars, timeoutVars, outfitId, siblingKeys>>

KeyInit ==
    /\ WorkflowIdle
    /\ RetryIdle
    /\ CacheIdle
    /\ PoolIdle
    /\ unhandled = FALSE
    /\ MainIdle
    /\ pageImageKeys = <<>>
    /\ TimeoutIdle
    /\ outfitId \in OutfitIdArgs
    /\ siblingKeys = [f \in Filenames |-> <<>>]
    /\ keyOutfitId = [f \in Filenames |-> <<>>]

KeyNext ==
    \/ MainBuildsKeys
    \/ KeyOutfitIdRead

SpecKeys == KeyInit /\ [][KeyNext]_vars

(* ------------------------------ claims -------------------------------- *)

\* Results with which backupImage returns (rather than throws).
Returned == {"true", "false", "null"}

WasIssued(op) == \E i \in DOMAIN issued : issued[i] = op

ReplacedByWorkflow ==
    kWritten /\ obj[key].kind \in {"compressed", "compression-failed"}

\* C1 as stated: whenever K's tag is compressed or compression-failed as a
\* result of the workflow, K.bkup exists and is tagged backup.
C1_Original ==
    ReplacedByWorkflow =>
        obj[backupKey].exists /\ obj[backupKey].kind = "backup"

\* C1 as amended: whenever K's tag is compressed or compression-failed as a
\* result of the workflow, an object K.bkup exists; it is tagged backup
\* unless the run found K.bkup already present with another tag state, in
\* which case K.bkup is left as it was.  The replace stage passes its gate
\* only while an object K.bkup exists.
C1_BackupExistsWhenReplaced ==
    /\ ReplacedByWorkflow =>
        /\ obj[backupKey].exists
        /\ \/ obj[backupKey].kind = "backup"
           \/ /\ obj0[backupKey].exists
              /\ obj0[backupKey].kind # "backup"
              /\ obj[backupKey] = obj0[backupKey]
    /\ replaceDecision = "Proceed" => obj[backupKey].exists

C1_Witness ==
    /\ pc = "idle"
    /\ ReplacedByWorkflow
    /\ ~obj0[backupKey].exists
    /\ obj[backupKey] = Object(obj0[key].body, "backup")

CopyReissued ==
    "copyObject-backup" \in pending' /\ "copyObject-backup" \notin pending

\* C2 as stated: once K.bkup exists tagged backup, no later step of any run,
\* forced or not, reissues the copy or changes K.bkup.
C2_Original ==
    [][(obj[backupKey].exists /\ obj[backupKey].kind = "backup")
         => (obj'[backupKey] = obj[backupKey] /\ ~CopyReissued)]_vars

\* C2 as amended: once K.bkup exists tagged backup, no step of a run made
\* without force reissues the copy or changes K.bkup.
C2_AppendOnlyWithoutForce ==
    [][(obj[backupKey].exists /\ obj[backupKey].kind = "backup" /\ ~force')
         => (obj'[backupKey] = obj[backupKey] /\ ~CopyReissued)]_vars

C2_Witness ==
    /\ runs = 2
    /\ ~force
    /\ pc = "return"
    /\ snapshotDecision = "SkipAlreadyDone"
    /\ didReplaceOriginal = "true"
    /\ obj[key].body[1] = "compressed"
    /\ obj[backupKey].body[1] = "original"
    /\ obj[backupKey].kind = "backup"

\* C3: within one invocation, a replace-stage write is issued only when the
\* snapshot stage has been decided and its copy, if issued, is no longer in
\* flight; the copy precedes every replace-stage write.
C3_SnapshotBeforeReplace ==
    \A i \in DOMAIN issued :
        issued[i] \in ReplaceWrites =>
            /\ "copyObject-backup" \notin pending
            /\ snapshotDecision # "unset"
            /\ snapshotDecision = "Proceed" =>
                   (i > 1 /\ issued[1] = "copyObject-backup")

C3_Witness ==
    /\ pc = "awaitReplaceWrite"
    /\ issued = <<"copyObject-backup", "putObject-compressed">>

\* C4: if the copy to K.bkup failed in an attempt, the attempt has ended with
\* an error, has issued no replace-stage write, and K is as it was.
C4_FailedCopyWritesNothing ==
    "copyObject-backup" \in failed =>
        /\ pc = "idle"
        /\ result = "error"
        /\ obj[key] = obj0[key]
        /\ \A i \in DOMAIN issued : issued[i] \notin ReplaceWrites

C4_Witness ==
    /\ "copyObject-backup" \in failed
    /\ result = "error"
    /\ issued = <<"copyObject-backup">>

TwoRunsReturned ==
    /\ pc = "idle"
    /\ runs >= 2
    /\ prev.result \in Returned
    /\ result \in Returned

\* C5 as stated: of two consecutive runs that return, the second returns a
\* falsy result and leaves the store as the first left it.
C5_Original ==
    TwoRunsReturned => (~Truthy(result) /\ obj = obj0)

\* C5 as amended: the same, for a second run made without force.
C5_IdempotentWithoutForce ==
    (TwoRunsReturned /\ ~force) => (~Truthy(result) /\ obj = obj0)

C5_Witness ==
    /\ TwoRunsReturned
    /\ prev = [force |-> TRUE, result |-> "true"]
    /\ ~force
    /\ result = "null"
    /\ obj = obj0
    /\ kWritten

\* C6: when the compressed image is larger than the image it was made from,
\* the replace stage issues no putObject, K's bytes stay as they were, and a
\* run that returns has tagged K compression-failed and returns true.
C6_LargerCompressionOnlyTags ==
    (/\ replaceDecision = "Proceed"
     /\ newImages.status = "success"
     /\ newImages.compressedSize > newImages.originalSize) =>
        /\ ~WasIssued("putObject-compressed")
        /\ obj[key].body = obj0[key].body
        /\ (pc = "return" \/ (pc = "idle" /\ result \in Returned)) =>
               /\ obj[key].kind = "compression-failed"
               /\ didReplaceOriginal = "true"
        /\ (pc = "idle" /\ result \in Returned) => result = "true"

C6_Witness ==
    /\ pc = "idle"
    /\ result = "true"
    /\ newImages.compressedSize > newImages.originalSize
    /\ WasIssued("copyObject-compressionFailed")
    /\ obj[key] = Object(obj0[key].body, "compression-failed")
    /\ obj0[key].kind = "undefined"

\* C7: a run without force on an untagged K with no K.bkup, whose compressed
\* image is no larger than the image it was made from, returns true with
\* K.bkup holding K's earlier bytes tagged backup and K holding the
\* compressed bytes tagged compressed; the run after it returns a falsy
\* result and changes nothing.
C7_EndToEnd ==
    /\ (/\ pc = "idle"
        /\ result \in Returned
        /\ ~force
        /\ obj0[key].exists
        /\ obj0[key].kind = "undefined"
        /\ ~obj0[backupKey].exists
        /\ newImages.compressedSize <= newImages.originalSize) =>
           /\ obj[backupKey] = Object(obj0[key].body, "backup")
           /\ obj[key] =
                Object(<<"compressed", newImages.compressedSize>>, "compressed")
           /\ result = "true"
    /\ (/\ pc = "idle"
        /\ result \in Returned
        /\ ~force
        /\ obj0[key].exists
        /\ obj0[key].kind = "compressed"
        /\ obj0[backupKey].exists
        /\ obj0[backupKey].kind = "backup") =>
           /\ ~Truthy(result)
           /\ obj = obj0

C7_Witness ==
    /\ pc = "idle"
    /\ runs = 2
    /\ prev = [force |-> FALSE, result |-> "true"]
    /\ ~force
    /\ result = "null"
    /\ obj[key].body[1] = "compressed"
    /\ obj[key].kind = "compressed"
    /\ obj[backupKey].body[1] = "original"
    /\ obj[backupKey].kind = "backup"

RunOnPriorFailure ==
    /\ runs >= 1
    /\ ~force
    /\ obj0[key].exists
    /\ obj0[key].kind = "compression-failed"

PriorFailureLeavesK ==
    /\ replaceDecision \in {"unset", "SkipPriorFailure"}
    /\ obj[key] = obj0[key]
    /\ \A i \in DOMAIN issued : issued[i] \notin ReplaceWrites

TagClass(t) ==
    IF t = "undefined" THEN "none"
    ELSE IF t \in {"backup", "compressed", "compression-failed"} THEN t
    ELSE "unexpected"

\* The replace-stage gate table.
GateTable(f, class) ==
    IF f THEN "Proceed"
    ELSE IF class = "none" THEN "Proceed"
    ELSE IF class = "compressed" THEN "SkipAlreadyDone"
    ELSE IF class = "compression-failed" THEN "SkipPriorFailure"
    ELSE "SkipUnexpectedTag"

\* C9: the branch replaceOriginalIfNotAlreadyDone takes is the one the gate
\* table gives for the force flag and the class of the original key's tag.
C9_GateTable ==
    replaceDecision # "unset" =>
        replaceDecision = GateTable(force, TagClass(tagging))

\* C10 as stated: without force, the snapshot gate proceeds (and the copy is
\* issued) whenever K.bkup carries no tag, be it absent or present with an
\* empty tag set; backup gives SkipAlreadyDone, anything else
\* SkipUnexpectedTag.
C10_Original ==
    (snapshotDecision # "unset" /\ ~force) =>
        /\ snapshotDecision =
             (IF backupTagging \in {"null", "undefined"} THEN "Proceed"
              ELSE IF backupTagging = "backup" THEN "SkipAlreadyDone"
              ELSE "SkipUnexpectedTag")
        /\ snapshotDecision = "Proceed" => WasIssued("copyObject-backup")

\* C10 as amended: without force, the snapshot gate proceeds (and the copy
\* is issued) exactly when K.bkup is absent; a K.bkup tagged backup gives
\* SkipAlreadyDone, and a K.bkup in any other tag state, an empty tag set
\* included, gives SkipUnexpectedTag.
C10_SnapshotGate ==
    (snapshotDecision # "unset" /\ ~force) =>
        /\ snapshotDecision =
             (IF backupTagging = "null" THEN "Proceed"
              ELSE IF backupTagging = "backup" THEN "SkipAlreadyDone"
              ELSE "SkipUnexpectedTag")
        /\ snapshotDecision = "Proceed" => WasIssued("copyObject-backup")

C10_Witness ==
    /\ ~force
    /\ backupTagging = "undefined"
    /\ snapshotDecision = "SkipUnexpectedTag"
    /\ pc = "replace"

\* The tag values each stage does not recognize on the object it guards.
UnrecognizedOnOriginal == Kinds \ {"undefined", "compressed", "compression-failed"}

UnrecognizedOnBackup == Kinds \ {"undefined", "backup"}

\* C11: without force, an object whose tag value is unrecognized is never
\* written: no replace write is issued on an original with such a tag, no
\* backup copy is issued onto a K.bkup with such a tag, and the object's bytes
\* and tag stay as the run found them.
C11_UnrecognizedNeverWritten ==
    (runs >= 1 /\ ~force) =>
        /\ (obj0[key].exists /\ obj0[key].kind \in UnrecognizedOnOriginal) =>
                /\ \A w \in ReplaceWrites : ~WasIssued(w)
                /\ obj[key] = obj0[key]
        /\ (obj0[backupKey].exists
                /\ obj0[backupKey].kind \in UnrecognizedOnBackup) =>
                /\ ~WasIssued("copyObject-backup")
                /\ obj[backupKey] = obj0[backupKey]

\* C12: a run that finds no original object ends with an error whatever the
\* force flag is, having issued no store request and changed nothing.
C12_MissingOriginalFails ==
    (runs >= 1 /\ ~obj0[key].exists) =>
        /\ pc \in {"loadTagging", "idle"}
        /\ pc = "idle" => result = "error"
        /\ issued = <<>>
        /\ pending = {}
        /\ obj = obj0

\* A forced run after an unforced one, both on a missing original, both
\* ended with the error.
C12_Witness ==
    /\ runs = 2
    /\ pc = "idle"
    /\ ~obj0[key].exists
    /\ ~obj[key].exists
    /\ force
    /\ ~prev.force
    /\ prev.result = "error"
    /\ result = "error"
    /\ tagging = "null"
    /\ issued = <<>>

\* The ways the preloaded chain rejects before compression: the query
\* returned errors or no outfit, or the render was a partial failure.
FetchOrRenderFailures == {"upstream-error", "partial-failure"}

\* C13: when the replace gate is Proceed and the fetch or the render failed,
\* the attempt ends with an error and no write on the original is issued (its
\* bytes and tag stay); once the attempts are used up the key is in the
\* failure list, and it gets there no other way.
C13_FetchOrRenderFailureAborts ==
    /\ (replaceDecision = "Proceed"
            /\ newImages.status \in FetchOrRenderFailures) =>
            /\ pc \in {"awaitNewImages", "idle"}
            /\ pc = "idle" => result = "error"
            /\ \A w \in ReplaceWrites : ~WasIssued(w)
            /\ obj[key] = obj0[key]
    /\ settled =>
            /\ pc = "idle"
            /\ result = "error" =>
                    /\ attempt = Retries + 1
                    /\ backupFailures = <<key>>
                    /\ numImageKeyNoOps = 0
            /\ result # "error" => backupFailures = <<>>
    /\ ~settled => backupFailures = <<>>

\* The last attempt failed on a partial render behind a passed gate and the
\* key was given up.
C13_Witness ==
    /\ settled
    /\ attempt = Retries + 1
    /\ replaceDecision = "Proceed"
    /\ newImages.status = "partial-failure"
    /\ result = "error"
    /\ backupFailures = <<key>>
    /\ obj[key] = obj0[key]

\* C14: a run that returned has a truthy result exactly if it issued a store
\* write; a run that skipped both stages returns a falsy value, and the
\* producer counts a falsy result, and only that, as a no-op.
C14_ResultIffMutation ==
    (pc = "idle" /\ result \in Returned) =>
        /\ Truthy(result) <=> issued # <<>>
        /\ (didSaveBackup = "false" /\ didReplaceOriginal = "null") =>
                result = "null"
        /\ settled => numImageKeyNoOps = IF Truthy(result) THEN 0 ELSE 1
        /\ ~settled => numImageKeyNoOps = 0

\* A run that skipped both stages was counted as a no-op.
C14_Witness ==
    /\ settled
    /\ snapshotDecision \notin {"unset", "Proceed"}
    /\ replaceDecision \notin {"unset", "Proceed"}
    /\ issued = <<>>
    /\ result = "null"
    /\ numImageKeyNoOps = 1
    /\ backupFailures = <<>>

\* A run that only made the backup copy returned true and was not counted
\* as a no-op.
C14_WitnessChanged ==
    /\ settled
    /\ issued = <<"copyObject-backup">>
    /\ result = "true"
    /\ numImageKeyNoOps = 0

\* The promise the cache holds for id, 0 if it holds none.
CachedFetch(id) ==
    IF CacheIndex(cache, id) = 0 THEN 0 ELSE cache[CacheIndex(cache, id)].fetch

\* This step is a call of loadOutfitDataWithCaching(id).
CallMade(id) ==
    /\ cache' # cache \/ lastCall' # lastCall
    /\ lastCall'.id = id

\* C15: a call for an id leaves the promise it got in the cache, and every
\* call made while the id has an entry starts no fetch and gets the entry's
\* promise: all callers of the id share the one fetch.
C15_ConcurrentCallsShareOneFetch ==
    /\ [](lastCall.id # 0 =>
            /\ CachedFetch(lastCall.id) = lastCall.fetch
            /\ fetches[lastCall.fetch].id = lastCall.id)
    /\ [][\A id \in OutfitIds :
            (CachedFetch(id) # 0 /\ CallMade(id)) =>
                /\ fetches' = fetches
                /\ lastCall'.hit
                /\ lastCall'.fetch = CachedFetch(id)]_vars

\* A caller joined a fetch that was still in flight.
C15_Witness ==
    /\ lastCall.hit
    /\ fetches[lastCall.fetch].status = "pending"
    /\ Len(fetches) = 1

\* C16: no id has two unresolved fetches at once.
C16_AtMostOnePendingFetchPerId ==
    \A f, g \in DOMAIN fetches :
        (f # g /\ fetches[f].id = fetches[g].id) =>
            ~(fetches[f].status = "pending" /\ fetches[g].status = "pending")

\* C17: the rejection of a fetch leaves its entry in the cache, a settled
\* promise never changes, and a call for an id whose entry holds a rejected
\* promise starts no fetch and gets that rejected promise.
C17_FailureCachedLikeSuccess ==
    [][/\ (\E f \in DOMAIN fetches : fetches'[f] # fetches[f]) => cache' = cache
       /\ \A f \in DOMAIN fetches :
            fetches[f].status # "pending" => fetches'[f] = fetches[f]
       /\ \A id \in OutfitIds :
            (/\ CachedFetch(id) # 0
             /\ fetches[CachedFetch(id)].status = "rejected"
             /\ CallMade(id)) =>
                /\ fetches' = fetches
                /\ lastCall'.fetch = CachedFetch(id)
                /\ fetches'[lastCall'.fetch].status = "rejected"]_vars

\* A later caller was handed a promise that had already been rejected.
C17_Witness ==
    /\ lastCall.hit
    /\ fetches[lastCall.fetch].status = "rejected"
    /\ CachedFetch(lastCall.id) = lastCall.fetch

\* This step inserts into a full cache.
OverflowInsert ==
    /\ Len(cache) = CacheMax
    /\ Len(fetches') = Len(fetches) + 1

Entries(c) == {c[i] : i \in DOMAIN c}

\* The entry inserted earliest among those the cache holds.
OldestInserted(c) ==
    CHOOSE e \in Entries(c) : \A d \in Entries(c) : e.fetch <= d.fetch

\* An id requested before that has no entry is fetched anew.
EvictedIdFetchedAnew ==
    \A id \in KnownIds :
        (CachedFetch(id) = 0 /\ CallMade(id)) =>
            /\ Len(fetches') = Len(fetches) + 1
            /\ fetches'[Len(fetches')] = [id |-> id, status |-> "pending"]
            /\ ~lastCall'.hit

\* C18 as stated: an insert into a full cache drops the entry inserted
\* earliest, whatever hits there were, and a request for an evicted id
\* starts a fresh fetch.
C18_Original ==
    [][/\ OverflowInsert =>
            Entries(cache') \cap Entries(cache)
                = Entries(cache) \ {OldestInserted(cache)}
       /\ EvictedIdFetchedAnew]_vars

\* C18: a hit makes its entry the most recently used; an insert into a full
\* cache drops the least recently used entry, which is never the entry of
\* the latest call, and keeps the others in order; a request for an evicted
\* id starts a fresh fetch.
C18_EvictsLeastRecentlyUsed ==
    [][/\ \A id \in OutfitIds :
            CallMade(id) => cache'[Len(cache')].id = id
       /\ OverflowInsert =>
            /\ cache[1].id # lastCall.id
            /\ SubSeq(cache', 1, CacheMax - 1) = Tail(cache)
       /\ EvictedIdFetchedAnew]_vars

\* The entry inserted first outlived an overflow because it had been hit,
\* and the id evicted in its place was then fetched anew.
C18_Witness ==
    /\ Len(fetches) = MaxFetches
    /\ CachedFetch(fetches[1].id) = 1
    /\ fetches[MaxFetches].id = fetches[2].id
    /\ CachedFetch(fetches[2].id) = MaxFetches

\* The keys whose workflow was claimed and has not settled.
InFlight == {i \in DOMAIN item : item[i].status = "running"}

\* C19: the producer hands out the indices 1, 2, ... each once and in order;
\* when the pool has settled every index was handed out, each always-failing
\* key has exactly one failure entry and every other key ended as a result.
C19_EachIndexOnce ==
    /\ claimed = [k \in 1..imageKeyIndex |-> k]
    /\ poolState = "settled" =>
            /\ imageKeyIndex = imageKeys
            /\ \A i \in 1..imageKeys :
                    item[i].status =
                        IF i \in alwaysFailing THEN "failure" ELSE "result"
            /\ Len(backupFailures) = Cardinality(alwaysFailing)
            /\ {backupFailures[k] : k \in DOMAIN backupFailures} = alwaysFailing
    /\ \A k \in DOMAIN backupFailures :
            /\ item[backupFailures[k]].status = "failure"
            /\ \A l \in DOMAIN backupFailures :
                    backupFailures[k] = backupFailures[l] => k = l

\* A page of more keys than workers, two of them always failing, is done:
\* two failures and a result for each of the others.
C19_Witness ==
    /\ poolState = "settled"
    /\ imageKeys = MaxImageKeys
    /\ Cardinality(alwaysFailing) = 2
    /\ Len(backupFailures) = 2
    /\ Cardinality({i \in 1..imageKeys : item[i].status = "result"})
            = imageKeys - 2

\* C20: never more than NUM_WORKERS workflows are in flight, the pool's
\* count is their number, and while keys remain to be handed out every one
\* of the NUM_WORKERS places is taken: a freed place is refilled at once.
C20_BoundedConcurrency ==
    /\ Cardinality(InFlight) <= NUM_WORKERS
    /\ poolSize = Cardinality(InFlight)
    /\ (poolState = "running" /\ imageKeyIndex < imageKeys) =>
            Cardinality(InFlight) = NUM_WORKERS
    /\ poolState # "running" => InFlight = {}

\* A place freed by a settled key was refilled while keys still remained.
C20_Witness ==
    /\ poolState = "running"
    /\ \E i \in DOMAIN item : item[i].status \in {"result", "failure"}
    /\ imageKeyIndex < imageKeys
    /\ Cardinality(InFlight) = NUM_WORKERS

\* The current run has requested the upstream data (and chained the render
\* and the compression to it).
UpstreamRequested == runs > 0 /\ newImages.status # "not-started"

\* C29 as stated: upstream data is requested only once the replace gate has
\* returned Proceed.
C29_Original ==
    UpstreamRequested => replaceDecision = "Proceed"

\* C29: the upstream data is requested when backupImage is called, before
\* any gate; when the replace gate does not return Proceed the run issues
\* no write on the original and goes on to return without awaiting the
\* preloaded images.
C29_PreloadedBeforeGates ==
    /\ runs > 0 => UpstreamRequested
    /\ replaceDecision \notin {"unset", "Proceed"} =>
            /\ pc \in {"return", "idle"}
            /\ \A w \in ReplaceWrites : ~WasIssued(w)
            /\ obj[key] = obj0[key]
            /\ didReplaceOriginal = "null"

\* A run on an original already tagged compressed skipped the replace stage
\* and returned, yet its preloaded chain fetched, rendered and compressed.
C29_Witness ==
    /\ ~force
    /\ replaceDecision = "SkipAlreadyDone"
    /\ pc = "idle"
    /\ result \in Returned
    /\ newImages.status = "success"

\* C30: no rejection of the preloaded chain is left without a handler.
C30_EveryPreloadFailureObserved ==
    ~unhandled

\* The image keys of the page main is working on, or has last worked on,
\* have all settled: a result, or a failure recorded after the retries.
PageSettled ==
    \A i \in DOMAIN item : item[i].status \in {"result", "failure"}

\* C21: while main requests a page no workflow of an earlier page is in
\* flight, and the cursor moves only when every image key of the current
\* page has settled.
C21_PageSettledBeforeCursorMoves ==
    /\ [](mainPc = "list" => PageSettled /\ poolSize = 0)
    /\ [][lastKey' # lastKey => PageSettled /\ Len(item) = Len(pageImageKeys)]_vars

\* main requests the next page after a page of two image keys of which one
\* was given up and the other settled with a result.
C21_Witness ==
    /\ mainPc = "list"
    /\ Len(pages) = 1
    /\ lastKey = NewCursor(keys)
    /\ Len(pageImageKeys) = 2
    /\ item[1].status = "failure"
    /\ item[2].status = "result"

\* C22: a key that fails on every attempt is recorded in the failure list
\* and stops nothing: no workflow is cut short, and unless a listing was
\* given up the run ends with exit code 0.
C22_FailingKeyNeverStopsBatch ==
    alwaysFailing # {} =>
        /\ \A i \in DOMAIN item :
                /\ item[i].status # "aborted"
                /\ item[i].status = "failure" =>
                        \E j \in DOMAIN backupFailures :
                            backupFailures[j] = pageImageKeys[i]
        /\ mainPc # "failed" => exitCode \in {NotExited, 0}

\* C23: main gives a listing up only after its 11th attempt; giving up
\* leaves the cursor where it was and ends the run with exit code 1, and
\* nothing happens afterwards: no listing, no workflow.
C23_ListingFailureStopsRun ==
    /\ [](mainPc = "failed" =>
            /\ exitCode = 1
            /\ listAttempt = ListRetries + 1
            /\ PageSettled)
    /\ [][/\ mainPc' = "failed" => lastKey' = lastKey /\ pages' = pages
          /\ mainPc # "failed"]_vars

\* The second listing of a run was given up while the bucket holds keys
\* after the cursor.
C23_Witness ==
    /\ mainPc = "failed"
    /\ Len(pages) = 1
    /\ lastKey = NewCursor(keys)
    /\ \E k \in KeysAfter(bucket, lastKey) : IsImageKey(k)

\* C24: a key's workflow is attempted at most 6 times and never again once
\* an attempt has returned; a key given up was attempted 6 times and the
\* error recorded for it is the one of its 6th attempt; a listing is
\* attempted at most 11 times.
C24_BoundedAttempts ==
    /\ [](/\ \A i \in DOMAIN item :
               /\ item[i].attempt <= Retries + 1
               /\ item[i].status = "failure" => item[i].attempt = Retries + 1
          /\ Len(failureErrors) = Len(backupFailures)
          /\ \A j \in DOMAIN failureErrors : failureErrors[j] = Retries + 1
          /\ listAttempt <= ListRetries + 1)
    /\ [][pages' = pages =>
            \A i \in DOMAIN item :
                item[i].status \in {"result", "failure"} => item'[i] = item[i]]_vars

\* On one page a key was given up after its 6th attempt and another
\* returned on its 2nd, and the listing of the next page is at its 11th
\* attempt.
C24_Witness ==
    /\ mainPc = "list"
    /\ listAttempt = ListRetries + 1
    /\ Len(item) = 2
    /\ item[1].status = "failure"
    /\ item[1].attempt = Retries + 1
    /\ failureErrors = <<Retries + 1>>
    /\ item[2].status = "result"
    /\ item[2].attempt = 2

\* The last key a listing returned.
LastListed(page) == page.keys[Len(page.keys)]

\* C25: each page holds only keys strictly after the cursor it was
\* requested with; the next page is requested with the last key of the page
\* before it, image key or not, which is strictly after the cursor before;
\* no key is listed twice.
C25_CursorIsLastListedKey ==
    /\ \A p \in DOMAIN pages :
            \A n \in DOMAIN pages[p].keys : pages[p].keys[n] > pages[p].cursor
    /\ \A p \in DOMAIN pages :
            p > 1 => /\ pages[p].cursor = LastListed(pages[p - 1])
                     /\ pages[p].cursor > pages[p - 1].cursor
    /\ mainPc = "list" /\ pages # <<>> => lastKey = LastListed(pages[Len(pages)])
    /\ \A p, q \in DOMAIN pages :
            \A n \in DOMAIN pages[p].keys, m \in DOMAIN pages[q].keys :
                pages[p].keys[n] = pages[q].keys[m] => p = q /\ n = m

\* The first page ended with a backup key, which became the cursor of a
\* second page that is not empty.
C25_Witness ==
    /\ Len(pages) = 2
    /\ pages[1].keys = <<1, 2>>
    /\ pages[2].cursor = 2
    /\ pages[2].keys # <<>>

\* main has left its loop, or the process has ended.
RunEnded == mainPc \in {"done", "failed", "crashed"}

\* C26: every run ends.  A run lists at most one page per key and one more,
\* an empty page is the last page listed and ends the loop at once, the
\* loop ends normally only on an empty page, and each completed page moves
\* the cursor forward.
C26_RunTerminates ==
    /\ [](Len(pages) <= Cardinality(AllKeys) + 1)
    /\ [](\A p \in DOMAIN pages :
             pages[p].keys = <<>> => p = Len(pages) /\ mainPc = "done")
    /\ [](mainPc = "done" => pages[Len(pages)].keys = <<>>)
    /\ [][mainPc = "pool" /\ mainPc' = "list" => lastKey' > lastKey]_vars
    /\ <>RunEnded

\* A run ended on its third listing: the first returned one image key, the
\* second that key's backup key, written after the first listing, and the
\* third nothing.
C26_Witness ==
    /\ mainPc = "done"
    /\ Len(pages) = 3
    /\ pages[1].keys = <<1>>
    /\ pages[2].keys = <<BackupKeyOf(1)>>
    /\ pages[3].keys = <<>>

\* numSuccesses as main's summary computes it.
numSuccesses == numImageKeys - numImageKeyNoOps - Len(backupFailures)

\* The image keys of the page whose workflow has not settled.
Unsettled(items) ==
    Cardinality({i \in DOMAIN items : items[i].status \notin {"result", "failure"}})

\* Key i of the page settles in this step.
Settles(i) ==
    /\ pages' = pages
    /\ item[i].status = "running"
    /\ item'[i].status \in {"result", "failure"}

\* C28: a key that settles adds one to exactly one of the three counts, a
\* truthy result to the successes, a falsy one to the no-ops and a key given
\* up to the failures, and no other step changes a count; so at the end of
\* a completed run the three counts add up to the number of image keys,
\* none is negative, and no key is twice in the failure list.
C28_EachImageKeyCountedOnce ==
    /\ [][LET succ  == numSuccesses - Unsettled(item)
              dSucc == (numSuccesses' - Unsettled(item')) - succ
              dNoOp == numImageKeyNoOps' - numImageKeyNoOps
              dFail == Len(backupFailures') - Len(backupFailures)
          IN  /\ (\A i \in DOMAIN item : ~Settles(i)) =>
                    dSucc = 0 /\ dNoOp = 0 /\ dFail = 0
              /\ \A i \in DOMAIN item :
                    Settles(i) =>
                        /\ item'[i].status = "failure" =>
                                dSucc = 0 /\ dNoOp = 0 /\ dFail = 1
                        /\ item'[i].status = "result" /\ Truthy(item'[i].value) =>
                                dSucc = 1 /\ dNoOp = 0 /\ dFail = 0
                        /\ item'[i].status = "result" /\ ~Truthy(item'[i].value) =>
                                dSucc = 0 /\ dNoOp = 1 /\ dFail = 0]_vars
    /\ [](mainPc = "done" =>
            /\ Unsettled(item) = 0
            /\ numSuccesses >= 0
            /\ numSuccesses + numImageKeyNoOps + Len(backupFailures) = numImageKeys
            /\ \A j, k \in DOMAIN backupFailures :
                    backupFailures[j] = backupFailures[k] => j = k)

\* A completed run counted two image keys: one success, no no-op and one
\* failure.
C28_Witness ==
    /\ mainPc = "done"
    /\ Len(pages) >= 3
    /\ numImageKeys = 2
    /\ numSuccesses = 1
    /\ numImageKeyNoOps = 0
    /\ Len(backupFailures) = 1

\* The attempts of deleteImageTags made before the latest one.
EarlierAttempts == {n \in DOMAIN delAttempts : n < Len(delAttempts)}

\* C27: an attempt whose timer fired counts as failed and is followed by
\* another attempt, up to 6 in all, while its request stays in flight; what
\* a request does after its attempt was decided changes neither the
\* attempt's verdict nor the outcome of the key, and the key is in the
\* failure list exactly when its outcome is a failure.
C27_LateSettlementDiscarded ==
    /\ [](/\ Len(delAttempts) <= DeleteRetries + 1
          /\ \A n \in EarlierAttempts :
                 delAttempts[n].verdict \in {"timeout", "error"}
          /\ \A n \in DOMAIN delAttempts :
                 (delAttempts[n].verdict = "success") <=>
                     (n = Len(delAttempts) /\ delOutcome = "success")
          /\ (delOutcome = "failure") <=> (deleteFailures = <<key>>)
          /\ delOutcome # "failure" => deleteFailures = <<>>)
    /\ [][/\ \A n \in DOMAIN delAttempts :
                 delAttempts[n].verdict # "pending" =>
                     delAttempts'[n].verdict = delAttempts[n].verdict
          /\ delOutcome \in {"success", "failure"} =>
                 delOutcome' = delOutcome /\ deleteFailures' = deleteFailures]_vars

\* The key was given up after 6 attempts, then the request of its first
\* attempt, which had timed out, completed: the tags are deleted and the
\* key stays a recorded failure.
C27_Witness ==
    /\ delOutcome = "failure"
    /\ Len(delAttempts) = DeleteRetries + 1
    /\ delAttempts[1] = [request |-> "done", verdict |-> "timeout"]
    /\ \A n \in 2..Len(delAttempts) :
            delAttempts[n] = [request |-> "pending", verdict |-> "timeout"]
    /\ tagsDeleted
    /\ deleteFailures = <<key>>

\* C31: an attempt for the key starts only when the attempt before it has
\* thrown, an attempt that has settled has left no store mutation in
\* flight, and at most one store mutation on K and K.bkup is in flight at a
\* time.
C31_OneAttemptInFlight ==
    /\ [](/\ pc = "idle" => pending = {}
          /\ Cardinality(pending) <= 1)
    /\ [][attempt' # attempt =>
            /\ attempt' = attempt + 1
            /\ pc = "idle"
            /\ pending = {}
            /\ attempt > 0 => result = "error"]_vars

\* The second attempt for the key is writing to K after the first one threw.
C31_Witness ==
    /\ attempt = 2
    /\ pc = "awaitReplaceWrite"
    /\ pending = {"putObject-compressed"}
    /\ prev.result = "error"

\* C32: every key handed to the workflow, and every key in the failure list,
\* ends in .png; a key that appears in the bucket during the run is the
\* backup key of an image key of the current page, so never the backup of a
\* backup; backup keys and other keys of a page are only counted.
C32_OnlyImageKeysProcessed ==
    /\ [](/\ \A i \in DOMAIN pageImageKeys : IsImageKey(pageImageKeys[i])
          /\ \A j \in DOMAIN backupFailures : IsImageKey(backupFailures[j])
          /\ mainPc = "pool" =>
                /\ Len(item) = Len(pageImageKeys)
                /\ \A n \in DOMAIN keys :
                        ~IsImageKey(keys[n]) =>
                            \A i \in DOMAIN pageImageKeys :
                                pageImageKeys[i] # keys[n])
    /\ [][\A k \in bucket' \ bucket :
            /\ IsImageBackupKey(k)
            /\ \E i \in DOMAIN pageImageKeys :
                    /\ IsImageKey(pageImageKeys[i])
                    /\ k = BackupKeyOf(pageImageKeys[i])]_vars

\* The backup key written for the image key of the first page was listed on
\* the second page, counted, and handed to no workflow.
C32_Witness ==
    /\ Len(pages) = 2
    /\ pages[1].keys = <<1>>
    /\ pages[2].keys = <<BackupKeyOf(1)>>
    /\ mainPc = "list"
    /\ lastKey = BackupKeyOf(1)
    /\ numImageKeys = 1
    /\ numImageBackupKeys = 1
    /\ pageImageKeys = <<>>
    /\ item = <<>>

\* The attempt under way, or the last one made, was handed an outfit data
\* promise that has been rejected.
AttemptGotFailedFetch ==
    /\ attempt >= 1
    /\ fetches[lastCall.fetch].status = "rejected"

\* C33 as stated: a retry that was handed the cached rejected promise
\* fails.
C33_Original ==
    (attempt >= 2 /\ lastCall.hit /\ AttemptGotFailedFetch /\ pc = "idle") =>
        result = "error"

\* C33: an attempt that starts while the cache holds a rejected promise for
\* the key's id starts no fetch and is handed that promise; the chain of an
\* attempt handed a rejected promise can only reject with the upstream
\* failure; and such an attempt, once its replace gate has returned
\* Proceed, issues no write to K and ends by throwing.
C33_RetriesReuseFailedFetch ==
    /\ [][(/\ attempt' # attempt
           /\ CachedFetch(KeyOutfitId) # 0
           /\ fetches[CachedFetch(KeyOutfitId)].status = "rejected") =>
              /\ fetches' = fetches
              /\ lastCall'.hit
              /\ lastCall'.fetch = CachedFetch(KeyOutfitId)]_vars
    /\ [](AttemptGotFailedFetch =>
            /\ newImages.status \in {"pending", "upstream-error"}
            /\ replaceDecision = "Proceed" =>
                  /\ pc \in {"awaitNewImages", "idle"}
                  /\ pc = "idle" => result = "error"
                  /\ \A w \in ReplaceWrites : ~WasIssued(w))

\* All six attempts for the key were made on one fetch, which was rejected,
\* and each reached the replace stage; the key was given up.
C33_Witness ==
    /\ settled
    /\ attempt = Retries + 1
    /\ Len(fetches) = 1
    /\ fetches[1].status = "rejected"
    /\ lastCall.hit
    /\ replaceDecision = "Proceed"
    /\ backupFailures = <<key>>

\* The length of the bytes a store holds at K.
StoredLength(store) == store[key].body[2]

\* C34: when a run has returned, K holds no more bytes than it held when
\* the run began.
C34_NeverReplacedByLarger ==
    (runs > 0 /\ pc = "idle" /\ result \in Returned) =>
        StoredLength(obj) <= StoredLength(obj0)

\* K.bkup is an object the workflow has copied, not one it found.
BackupMadeByWorkflow ==
    obj[backupKey].exists /\ obj[backupKey].body[1] # "earlier"

\* C35: over runs made without force, completed or cut short between store
\* operations: K.bkup is written only while it does not exist and K has not
\* been replaced, and it gets K's bytes of that moment and the tag backup;
\* K's bytes change only by a replace made while K.bkup exists; so whenever
\* K holds bytes the replace stage wrote, K.bkup exists, and a K.bkup the
\* workflow made is tagged backup and holds the bytes K had before its
\* first replace.
C35_RerunsKeepOriginalBytes ==
    /\ [](kWritten =>
            /\ obj[backupKey].exists
            /\ BackupMadeByWorkflow =>
                  /\ obj[backupKey].kind = "backup"
                  /\ obj[backupKey].body[1] = "original")
    /\ [][/\ obj'[backupKey] # obj[backupKey] =>
                /\ ~obj[backupKey].exists
                /\ ~kWritten
                /\ obj'[backupKey] = Object(obj[key].body, "backup")
          /\ obj'[key].body # obj[key].body =>
                /\ obj[backupKey].exists
                /\ obj'[backupKey] = obj[backupKey]
                /\ kWritten']_vars

\* The first run was cut short after its copy to K.bkup; the second run
\* skipped the snapshot stage, replaced K and returned, and K.bkup holds
\* K's original bytes.
C35_Witness ==
    /\ runs = 2
    /\ prev.result = "interrupted"
    /\ pc = "idle"
    /\ result \in Returned
    /\ snapshotDecision # "Proceed"
    /\ obj[key].body[1] = "compressed"
    /\ obj[backupKey].kind = "backup"
    /\ obj[backupKey].body[1] = "original"

\* What main keeps across pages: cursor, key counters, failure list.
batchState ==
    <<lastKey, numKeys, numImageKeys, numImageBackupKeys, numImageKeyNoOps,
      backupFailures>>

\* C36: a listing attempt that fails, retried or given up on, changes none
\* of the cursor, the key counters and the failure list; the cursor stays
\* the same for as long as a page is being listed, and the page that is
\* returned is the one after that cursor; the key counters change only in
\* the step in which a listing returns a page, the no-op counter and the
\* failure list only while that page's pool runs, and the cursor only
\* when that pool has settled, to the last key of the page.
C36_FailedListingChangesNothing ==
    [][/\ (mainPc = "list" /\ mainPc' \in {"list", "failed"}) =>
            /\ batchState' = batchState
            /\ keys' = keys
            /\ pages' = pages
       /\ (mainPc = "list" /\ pages' # pages) =>
            /\ lastKey' = lastKey
            /\ pages'[Len(pages')].cursor = lastKey
            /\ pages'[Len(pages')].keys = getImageKeys(bucket, lastKey)
       /\ <<numKeys, numImageKeys, numImageBackupKeys>>' #
            <<numKeys, numImageKeys, numImageBackupKeys>> =>
            /\ mainPc = "list"
            /\ mainPc' = "pool"
            /\ keys' # <<>>
       /\ <<numImageKeyNoOps, backupFailures>>' #
            <<numImageKeyNoOps, backupFailures>> =>
            /\ mainPc = "pool"
            /\ keys # <<>>
       /\ lastKey' # lastKey =>
            /\ mainPc = "pool"
            /\ poolState = "settled"
            /\ keys = pages[Len(pages)].keys
            /\ lastKey' = keys[Len(keys)]]_vars

\* The listing of the second page has failed twice: cursor and counts are
\* those the first page left.
C36_Witness ==
    /\ mainPc = "list"
    /\ listAttempt = 3
    /\ Len(pages) = 1
    /\ pages[1].keys # <<>>
    /\ lastKey = pages[1].keys[Len(pages[1].keys)]
    /\ lastKey # pages[1].cursor
    /\ numKeys = Len(pages[1].keys)
    /\ Len(backupFailures) = 1

\* C37: the shared cache of outfit data promises never holds more entries
\* than its max of 2 x NUM_WORKERS, and never two entries for one id,
\* however many distinct outfit ids are requested.
C37_CacheWithinCapacity ==
    /\ Len(cache) <= 2 * NUM_WORKERS
    /\ \A i, j \in DOMAIN cache : cache[i].id = cache[j].id => i = j

\* More distinct ids than the cache's max have been requested, the last one
\* by a miss on a full cache, and the cache is still at its max.
C37_Witness ==
    /\ Cardinality(KnownIds) = 2 * NUM_WORKERS + 1
    /\ Len(cache) = 2 * NUM_WORKERS
    /\ ~lastCall.hit
    /\ lastCall.id = 2 * NUM_WORKERS + 1
    /\ CacheIndex(cache, 1) = 0

\* C38: for every outfit id of at most nine digits, the id read back from
\* each of the outfit's three keys (path segments 1 to 3 joined, leading
\* zeros stripped) is the id the keys were built from, so the three keys
\* give one and the same id to the cache; the key has three segments of
\* three digits, and parseS3Key reads the same number from it.
C38_KeyIdRoundTrip ==
    /\ Number(outfitId) \in 0..999999999
    /\ String(Number(outfitId)) = outfitId
    /\ \A f \in Filenames :
          /\ siblingKeys[f] # <<>> =>
                /\ MatchesS3KeyPattern(siblingKeys[f])
                /\ parseS3Key(siblingKeys[f]).outfitId = Number(outfitId)
          /\ keyOutfitId[f] # <<>> =>
                /\ keyOutfitId[f] = outfitId
                /\ \A g \in Filenames :
                      keyOutfitId[g] # <<>> => keyOutfitId[g] = keyOutfitId[f]

\* Outfit 1009: the key of its preview is outfits/000/001/009/preview.png,
\* and all three keys have been read back as 1009.
C38_Witness ==
    /\ outfitId = <<49, 48, 48, 57>>
    /\ siblingKeys[PreviewPng] =
         Outfits \o <<47, 48, 48, 48, 47, 48, 48, 49, 47, 48, 48, 57, 47>> \o PreviewPng
    /\ \A f \in Filenames : keyOutfitId[f] = <<49, 48, 48, 57>>

====
